---------------------------- MODULE Spec2Model ----------------------------
(***************************************************************************)
(* A model of the rule-driven validation engine SparkDataValidator         *)
(* (src/validators/dataframe_validator.py).                                 *)
(*                                                                         *)
(* A relation (DataFrame) is a finite multiset of rows, held as a sequence *)
(* whose order carries no meaning.  All columns are string columns: a cell *)
(* is a sequence of one-character strings, or NULL.  SQL expressions are   *)
(* three-valued: "T", "F" and "N" (SQL NULL).  Casts return NULL when they *)
(* fail (the non-ANSI behaviour the handlers are written for).             *)
(***************************************************************************)
EXTENDS Integers, Sequences, FiniteSets, TLC

\* ------------------------------------------------------------------ bounds
MaxRows == 2
MaxRules == 2
MaxTextLen == 4

\* --------------------------------------------------------------- constants
\* the cap the unique handler puts on its own partial
UNIQUE_LIMIT == 1000
\* the sample size of a fail-fast raise
RAISE_SAMPLE == 10
\* length rule defaults
LENGTH_MIN_DEFAULT == 0
LENGTH_MAX_DEFAULT == 1000000
\* decimal rule defaults
PRECISION_DEFAULT == 18
SCALE_DEFAULT == 2

\* ------------------------------------------------------------------ values
\* SQL NULL in a cell (a cell is otherwise a sequence of characters)
NULL == <<"<null>">>
\* SQL NULL in a name-valued field of a diagnostic row
NullStr == "<null>"
\* a key absent from a rule dict
Absent == "<absent>"

Digits == {"0", "1", "2", "3", "4", "5", "6", "7", "8", "9"}

DigitVal(c) ==
  CASE c = "0" -> 0 [] c = "1" -> 1 [] c = "2" -> 2 [] c = "3" -> 3
    [] c = "4" -> 4 [] c = "5" -> 5 [] c = "6" -> 6 [] c = "7" -> 7
    [] c = "8" -> 8 [] c = "9" -> 9

Min2(a, b) == IF a <= b THEN a ELSE b

RECURSIVE Pow10(_)
Pow10(n) == IF n <= 0 THEN 1 ELSE 10 * Pow10(n - 1)

Abs(n) == IF n < 0 THEN -n ELSE n

\* the number of decimal digits of n >= 0 (0 has none)
RECURSIVE DigitCount(_)
DigitCount(n) == IF n = 0 THEN 0 ELSE 1 + DigitCount(n \div 10)

\* --------------------------------------------------- three-valued booleans
B3(b) == IF b THEN "T" ELSE "F"

And3(a, b) ==
  IF a = "F" \/ b = "F" THEN "F"
  ELSE IF a = "N" \/ b = "N" THEN "N"
  ELSE "T"

Not3(a) == IF a = "N" THEN "N" ELSE IF a = "T" THEN "F" ELSE "T"

IsNotNull(v) == B3(v # NULL)

\* a nullable number: Num(n), or NoNum (SQL NULL, Python None)
Num(n) == [null |-> FALSE, v |-> n]
NoNum == [null |-> TRUE, v |-> 0]
Geq3(a, b) == IF a.null \/ b.null THEN "N" ELSE B3(a.v >= b.v)
Leq3(a, b) == IF a.null \/ b.null THEN "N" ELSE B3(a.v <= b.v)
NumIsNotNull(a) == B3(~a.null)

\* SQL equality of two cells: NULL when either side is NULL
Eq3(a, b) == IF a = NULL \/ b = NULL THEN "N" ELSE B3(a = b)

\* ----------------------------------------------------------------- strings
RECURSIVE TrimLeft(_)
TrimLeft(s) ==
  IF s # <<>> /\ Head(s) = " " THEN TrimLeft(Tail(s)) ELSE s

RECURSIVE TrimRight(_)
TrimRight(s) ==
  IF s # <<>> /\ s[Len(s)] = " " THEN TrimRight(SubSeq(s, 1, Len(s) - 1)) ELSE s

\* F.trim
Trim(s) == IF s = NULL THEN NULL ELSE TrimRight(TrimLeft(s))

\* F.length
Length(s) == IF s = NULL THEN NoNum ELSE Num(Len(s))

AllDigits(s) == \A k \in 1..Len(s) : s[k] \in Digits

\* the value of a digit string, most significant digit first
RECURSIVE DigitsVal(_)
DigitsVal(s) ==
  IF s = <<>> THEN 0
  ELSE 10 * DigitsVal(SubSeq(s, 1, Len(s) - 1)) + DigitVal(s[Len(s)])

\* the position of the first "." of s, or 0
DotPos(s) ==
  IF \E k \in 1..Len(s) : s[k] = "."
  THEN CHOOSE k \in 1..Len(s) : s[k] = "." /\ \A j \in 1..(k - 1) : s[j] # "."
  ELSE 0

\* the parse of an unsigned decimal literal whose first "." is at d (0: none)
ParseBody(neg, body, d) ==
  [neg |-> neg,
   int |-> IF d = 0 THEN body ELSE SubSeq(body, 1, d - 1),
   frac |-> IF d = 0 THEN <<>> ELSE SubSeq(body, d + 1, Len(body))]

ParseSigned(neg, body) == ParseBody(neg, body, DotPos(body))

ParseTrimmed(t) ==
  IF t # <<>> /\ Head(t) \in {"-", "+"}
  THEN ParseSigned(Head(t) = "-", Tail(t))
  ELSE ParseSigned(FALSE, t)

\* whether [neg, int, frac] is a decimal literal
ParseOk(n) ==
  AllDigits(n.int) /\ AllDigits(n.frac) /\ Len(n.int) + Len(n.frac) > 0

\* The parse of a decimal literal, as the string-to-number casts read it:
\* surrounding blanks are dropped, then [sign] digits [. [digits]] or
\* [sign] . digits.  The result is [neg, int, frac]; ParseOk tells whether
\* the text is a number.
ParseNumber(text) == ParseTrimmed(Trim(text))

\* the digits of frac to n places, padded with zeros
FracTo(frac, n) ==
  [k \in 1..n |-> IF k <= Len(frac) THEN frac[k] ELSE "0"]

\* the magnitude of the parse n as an integer at scale k, rounded half up
ScaledMag(n, k) ==
  DigitsVal(n.int) * Pow10(k) + DigitsVal(FracTo(n.frac, k))
  + (IF Len(n.frac) > k /\ DigitVal(n.frac[k + 1]) >= 5 THEN 1 ELSE 0)

Signed(n, mag) == IF n.neg THEN Num(-mag) ELSE Num(mag)

DoubleOf(n) ==
  IF ~ParseOk(n) THEN NoNum ELSE Signed(n, ScaledMag(n, MaxTextLen))

\* cast(text as double), as the integer value * 10^MaxTextLen (exact for
\* texts of at most MaxTextLen characters); NoNum when the cast fails
CastDouble(text) == IF text = NULL THEN NoNum ELSE DoubleOf(ParseNumber(text))

\* F.lit(n) of a Python integer n of a rule, on the scale of CastDouble
LitDouble(n) == Num(n * Pow10(MaxTextLen))

\* a magnitude of more than p digits overflows Decimal(p, s)
DecimalOfMag(n, mag, p) ==
  IF DigitCount(mag) > p THEN NoNum ELSE Signed(n, mag)

DecimalOf(n, p, s) ==
  IF ~ParseOk(n) THEN NoNum ELSE DecimalOfMag(n, ScaledMag(n, s), p)

\* cast(text as Decimal(p, s)): the unscaled integer at scale s, rounded
\* half up; NoNum when the text is no number or the result needs more than
\* p digits
CastDecimal(text, p, s) ==
  IF text = NULL THEN NoNum ELSE DecimalOf(ParseNumber(text), p, s)

\* F.lit(n).cast(Decimal(p, s)) of a Python integer n
LitDecimal(n, p, s) ==
  IF DigitCount(Abs(n) * Pow10(s)) > p THEN NoNum ELSE Num(n * Pow10(s))

\* the end of the run of digits of text that starts at b
DigitRunEnd(text, b) ==
  CHOOSE k \in b..Len(text) :
    /\ \A j \in b..k : text[j] \in Digits
    /\ (k = Len(text) \/ text[k + 1] \notin Digits)

FracFrom(text, starts) ==
  IF starts = {} THEN <<>>
  ELSE LET b == CHOOSE k \in starts : \A j \in starts : k <= j
       IN  SubSeq(text, b, DigitRunEnd(text, b))

\* regexp_extract(text, "(?<=\.)\d+", 0): the first maximal run of digits
\* that directly follows a ".", "" when there is none, NULL for NULL
FracDigits(text) ==
  IF text = NULL THEN NULL
  ELSE FracFrom(text, {k \in 2..Len(text) :
                         text[k - 1] = "." /\ text[k] \in Digits})

\* ------------------------------------------------------------------- rules
\* df.columns: the schema of the input relation
Schema == <<"id", "val">>

InSchema(c) == \E k \in 1..Len(Schema) : Schema[k] = c

\* rule.get(key, default)
Get(v, default) == IF v = Absent THEN default ELSE v
GetNum(n, default) == IF n.null THEN default ELSE n.v

\* a rule dict; a key the rule type does not read keeps its empty value
Rule(type, name) ==
  [type |-> type, name |-> name, columns |-> <<>>, column |-> Absent,
   min |-> NoNum, max |-> NoNum, allowed |-> <<>>, allowedValues |-> <<>>,
   pattern |-> Absent,
   precision |-> NoNum, scale |-> NoNum, exact_scale |-> FALSE]

\* ---------------------------------------------------------------- relations
HasRows(rel) == Len(rel) > 0

\* the rows of rel at the positions S, in order
RECURSIVE Pick(_, _)
Pick(rel, S) ==
  IF rel = <<>> THEN <<>>
  ELSE LET rest == Pick(Tail(rel), {k - 1 : k \in S \ {1}})
       IN  IF 1 \in S THEN <<Head(rel)>> \o rest ELSE rest

\* rel.limit(n): any n rows of rel (all of them when it has fewer)
Limit(rel, n) ==
  {Pick(rel, S) : S \in {T \in SUBSET (1..Len(rel)) :
                           Cardinality(T) = Min2(n, Len(rel))}}

\* [p.limit(n) for p in parts]
RECURSIVE LimitEach(_, _)
LimitEach(parts, n) ==
  IF parts = <<>> THEN {<<>>}
  ELSE {<<h>> \o t : h \in Limit(Head(parts), n), t \in LimitEach(Tail(parts), n)}

\* rel.where(cond): cond holds one truth value per row of rel
Where(rel, cond) == Pick(rel, {k \in 1..Len(rel) : cond[k]})

\* the cells of a row at the columns cols
Tuple(row, cols) == [k \in 1..Len(cols) |-> row[cols[k]]]

\* the join condition t1.c1 == t2.c1 AND ... over two tuples of cells
RECURSIVE EqAll3(_, _)
EqAll3(t1, t2) ==
  IF Len(t1) = 1 THEN Eq3(t1[1], t2[1])
  ELSE And3(EqAll3(SubSeq(t1, 1, Len(t1) - 1), SubSeq(t2, 1, Len(t2) - 1)),
            Eq3(t1[Len(t1)], t2[Len(t2)]))

\* _union_all: unionByName over partials of one schema; <<>> stands for both
\* None and the relation of _empty_errors_df
RECURSIVE UnionAll(_)
UnionAll(parts) ==
  IF parts = <<>> THEN <<>> ELSE Head(parts) \o UnionAll(Tail(parts))

\* ",".join(cols)
RECURSIVE JoinNames(_)
JoinNames(cols) ==
  IF cols = <<>> THEN ""
  ELSE IF Len(cols) = 1 THEN cols[1]
  ELSE cols[1] \o "," \o JoinNames(Tail(cols))

\* concat_ws("||", cells): NULL cells are skipped
RECURSIVE ConcatWs(_)
ConcatWs(cells) ==
  IF cells = <<>> THEN <<>>
  ELSE LET rest == ConcatWs(Tail(cells))
           more == \E k \in 2..Len(cells) : cells[k] # NULL
       IN  IF Head(cells) = NULL THEN rest
           ELSE IF more THEN Head(cells) \o <<"|", "|">> \o rest
           ELSE Head(cells)

\* ------------------------------------------------------------- diagnostics
\* _msg
Msg(rule, colname, extra) ==
  "[" \o Get(rule.name, "unnamed") \o "] " \o colname \o ": " \o extra

\* a row of the diagnostics relation
Diag(ids, rule, column, value, message) ==
  [ids |-> ids, rule |-> rule, column |-> column, value |-> value,
   message |-> message]

NullIds(idc) == [k \in 1..Len(idc) |-> NULL]

\* _collect_error: the rows whose mask is false (not the rows whose mask is
\* NULL: where(~mask) keeps a row only when ~mask is true); mask holds one
\* three-valued truth value per row of rel
CollectError(idc, rel, mask, rule, colname) ==
  LET bad == Where(rel, [k \in 1..Len(rel) |-> Not3(mask[k]) = "T"])
  IN  [k \in 1..Len(bad) |->
         Diag(Tuple(bad[k], idc), Get(rule.name, ""), colname,
              bad[k][colname], Msg(rule, colname, "validation failed"))]

\* _meta_error
MetaError(idc, rule, text) ==
  <<Diag(NullIds(idc), Get(rule.name, ""), NullStr, NULL, text)>>

\* ----------------------------------------------------------- rule handlers
\* Each handler returns its list of partials (a sequence of relations of
\* diagnostic rows).

\* [c for c in required if c not in df.columns]
RECURSIVE Missing(_)
Missing(required) ==
  IF required = <<>> THEN <<>>
  ELSE IF InSchema(Head(required)) THEN Missing(Tail(required))
  ELSE <<Head(required)>> \o Missing(Tail(required))

ValidateHeaders(idc, rule) ==
  LET missing == Missing(rule.columns)
  IN  IF missing = <<>> THEN <<>>
      ELSE <<[k \in 1..Len(missing) |->
                Diag(NullIds(idc), Get(rule.name, "headers"), missing[k], NULL,
                     "[headers] missing column " \o missing[k])]>>

\* a cell that is null or blank after trimming
IsBlank(v) == v = NULL \/ Trim(v) = <<>>

\* _validate_non_empty judging the columns together: one partial holding
\* the rows blank in some column, reported under the first column
ValidateNonEmptyJoint(idc, rel, rule) ==
  IF rule.columns = <<>> THEN <<>>
  ELSE <<CollectError(idc, rel,
                      [k \in 1..Len(rel) |->
                         B3(\A c \in 1..Len(rule.columns) :
                              ~IsBlank(rel[k][rule.columns[c]]))],
                      rule, rule.columns[1])>>

ValidateNonEmpty(idc, rel, rule) ==
  LET Part(c) ==
        CollectError(idc, rel,
                     [k \in 1..Len(rel) |->
                        And3(IsNotNull(rel[k][c]),
                             Not3(Eq3(Trim(rel[k][c]), <<>>)))],
                     rule, c)
  IN  [k \in 1..Len(rule.columns) |-> Part(rule.columns[k])]

ValidateRange(idc, rel, rule) ==
  LET c == rule.column
      Mask(num) ==
        And3(And3(NumIsNotNull(num), Geq3(num, LitDouble(rule.min.v))),
             Leq3(num, LitDouble(rule.max.v)))
  IN  <<CollectError(idc, rel,
                     [k \in 1..Len(rel) |-> Mask(CastDouble(rel[k][c]))],
                     rule, c)>>

\* Column.isin(list): NULL for a NULL cell, and for a cell that equals no
\* element of a list that holds a NULL
IsIn3(v, list) ==
  IF v = NULL THEN "N"
  ELSE IF \E k \in 1..Len(list) : list[k] = v THEN "T"
  ELSE IF \E k \in 1..Len(list) : list[k] = NULL THEN "N"
  ELSE "F"

ValidateEnum(idc, rel, rule) ==
  LET c == rule.column
      allowed == IF rule.allowed # <<>> THEN rule.allowed ELSE rule.allowedValues
  IN  <<CollectError(idc, rel,
                     [k \in 1..Len(rel) |-> IsIn3(rel[k][c], allowed)],
                     rule, c)>>

ValidateLength(idc, rel, rule) ==
  LET c == rule.column
      Mask(l) ==
        And3(Geq3(l, Num(GetNum(rule.min, LENGTH_MIN_DEFAULT))),
             Leq3(l, Num(GetNum(rule.max, LENGTH_MAX_DEFAULT))))
  IN  <<CollectError(idc, rel,
                     [k \in 1..Len(rel) |-> Mask(Length(rel[k][c]))],
                     rule, c)>>

\* Column.rlike(pattern) for the patterns of the rule catalogue: a match
\* anywhere in the text; NULL for a NULL cell
RLike(text, pattern) ==
  IF text = NULL THEN "N"
  ELSE CASE pattern = "^[0-9]+$" -> B3(text # <<>> /\ AllDigits(text))
         [] pattern = "[0-9]" -> B3(\E k \in 1..Len(text) : text[k] \in Digits)

ValidateRegex(idc, rel, rule) ==
  LET c == rule.column
  IN  <<CollectError(idc, rel,
                     [k \in 1..Len(rel) |-> RLike(rel[k][c], rule.pattern)],
                     rule, c)>>

\* df.groupBy(cols).count().where(count > 1).drop("count"): grouping puts
\* NULL cells in one group
DupKeys(rel, cols) ==
  {t \in {Tuple(rel[k], cols) : k \in 1..Len(rel)} :
     Cardinality({k \in 1..Len(rel) : Tuple(rel[k], cols) = t}) > 1}

\* the rows of the unique rule before its own limit: df inner join dup_keys
\* on the null-rejecting equality of every column of cols
UniqueErr(idc, rel, rule) ==
  LET cols == rule.columns
      dup_keys == DupKeys(rel, cols)
      Joined(row) == \E t \in dup_keys : EqAll3(Tuple(row, cols), t) = "T"
      offending == Where(rel, [k \in 1..Len(rel) |-> Joined(rel[k])])
  IN  [k \in 1..Len(offending) |->
         Diag(Tuple(offending[k], idc), Get(rule.name, "unique"),
              JoinNames(cols), ConcatWs(Tuple(offending[k], cols)),
              Msg(rule, JoinNames(cols), "duplicate key"))]

\* _validate_unique: the possible results, one per choice of err.limit(1000)
ValidateUnique(idc, rel, rule) ==
  {<<e>> : e \in Limit(UniqueErr(idc, rel, rule), UNIQUE_LIMIT)}

\* length(when(frac == "", "0").otherwise(frac))
FracLen(frac) ==
  IF frac = NULL THEN NoNum
  ELSE IF frac = <<>> THEN Length(<<"0">>)
  ELSE Length(frac)

\* the min and max bounds of the decimal rule, and-ed to the mask m
DecimalBounds(m, dec, rule, p, s) ==
  And3(And3(m, IF rule.min.null THEN "T"
               ELSE Geq3(dec, LitDecimal(rule.min.v, p, s))),
       IF rule.max.null THEN "T" ELSE Leq3(dec, LitDecimal(rule.max.v, p, s)))

DecimalScale(dec, text, rule, p, s) ==
  DecimalBounds(IF rule.exact_scale
                THEN And3(NumIsNotNull(dec),
                          Leq3(FracLen(FracDigits(text)), Num(s)))
                ELSE NumIsNotNull(dec),
                dec, rule, p, s)

DecimalPS(text, rule, p, s) ==
  DecimalScale(CastDecimal(text, p, s), text, rule, p, s)

\* the mask of the decimal rule on one cell
DecimalMask(text, rule) ==
  DecimalPS(text, rule, GetNum(rule.precision, PRECISION_DEFAULT),
            GetNum(rule.scale, SCALE_DEFAULT))

ValidateDecimal(idc, rel, rule) ==
  LET c == rule.column
  IN  <<CollectError(idc, rel,
                     [k \in 1..Len(rel) |-> DecimalMask(rel[k][c], rule)],
                     rule, c)>>

\* the rule types of the HANDLERS registry
HandlerTypes ==
  {"headers", "non_empty", "range", "enum", "length", "regex", "unique",
   "decimal"}

\* _run yielding no partial for a type without handler
RunSkipsUnknown(idc, rel, rule) ==
  CASE rule.type \notin HandlerTypes -> {<<>>}
    [] rule.type = "headers" -> {ValidateHeaders(idc, rule)}
    [] rule.type = "non_empty" -> {ValidateNonEmpty(idc, rel, rule)}
    [] rule.type = "range" -> {ValidateRange(idc, rel, rule)}
    [] rule.type = "enum" -> {ValidateEnum(idc, rel, rule)}
    [] rule.type = "length" -> {ValidateLength(idc, rel, rule)}
    [] rule.type = "regex" -> {ValidateRegex(idc, rel, rule)}
    [] rule.type = "unique" -> ValidateUnique(idc, rel, rule)
    [] rule.type = "decimal" -> {ValidateDecimal(idc, rel, rule)}

\* _run: the possible lists of partials of one rule
Run(idc, rel, rule) ==
  CASE rule.type \notin HandlerTypes ->
         {<<MetaError(idc, rule, "Unknown rule type: " \o rule.type)>>}
    [] rule.type = "headers" -> {ValidateHeaders(idc, rule)}
    [] rule.type = "non_empty" -> {ValidateNonEmpty(idc, rel, rule)}
    [] rule.type = "range" -> {ValidateRange(idc, rel, rule)}
    [] rule.type = "enum" -> {ValidateEnum(idc, rel, rule)}
    [] rule.type = "length" -> {ValidateLength(idc, rel, rule)}
    [] rule.type = "regex" -> {ValidateRegex(idc, rel, rule)}
    [] rule.type = "unique" -> ValidateUnique(idc, rel, rule)
    [] rule.type = "decimal" -> {ValidateDecimal(idc, rel, rule)}

\* _finalize without its anti-join: every input row is returned as valid
FinalizeNoAntiJoin(idc, rel, violations) ==
  [kind |-> "return", is_valid |-> ~HasRows(UnionAll(violations)),
   valid_df |-> rel, errors_df |-> UnionAll(violations)]

\* _finalize excluding every input row when id_cols is empty and there are
\* diagnostics
FinalizeEmptyIdsExcludes(idc, rel, parts) ==
  LET errors_df == UnionAll(parts)
      bad_ids == {errors_df[k].ids : k \in 1..Len(errors_df)}
      Kept(row) == ~\E b \in bad_ids : EqAll3(Tuple(row, idc), b) = "T"
      valid_df == IF idc # <<>>
                  THEN Where(rel, [k \in 1..Len(rel) |-> Kept(rel[k])])
                  ELSE IF HasRows(errors_df) THEN <<>> ELSE rel
  IN  [kind |-> "return", is_valid |-> ~HasRows(errors_df),
       valid_df |-> valid_df, errors_df |-> errors_df]

\* _finalize: (is_valid, valid_df, errors_df) of the collected partials
Finalize(idc, rel, violations) ==
  LET errors_df == UnionAll(violations)
      bad_ids == {errors_df[k].ids : k \in 1..Len(errors_df)}
      Kept(row) == ~\E b \in bad_ids : EqAll3(Tuple(row, idc), b) = "T"
      valid_df == IF idc # <<>>
                  THEN Where(rel, [k \in 1..Len(rel) |-> Kept(rel[k])])
                  ELSE rel
  IN  [kind |-> "return", is_valid |-> ~HasRows(errors_df),
       valid_df |-> valid_df, errors_df |-> errors_df]

\* ------------------------------------------------- rule schema validator
\* SUPPORTED_TYPES
SUPPORTED_TYPES ==
  <<"headers", "non_empty", "range", "enum", "length", "regex", "unique",
    "decimal">>

IsSupported(rtype) == \E k \in 1..Len(SUPPORTED_TYPES) : SUPPORTED_TYPES[k] = rtype

\* the defaults RuleSchemaValidator writes into length and decimal rules
RULE_LENGTH_MIN == 0
RULE_LENGTH_MAX == 1000000
default_precision == 18
default_scale == 2

\* id_cols=None: no dataset-column hint
NoHint == <<"<none>">>

\* a bound that float() rejects
NotANumber == [null |-> FALSE, v |-> 0, text |-> "x"]

\* _is_number
IsNumber(n) == "text" \notin DOMAIN n

\* str(v).strip() on the type and name texts of the rule catalogue
Strip(s) ==
  CASE s = Absent -> ""
    [] s = " " -> ""
    [] s = " range " -> "range"
    [] s = " chk " -> "chk"
    [] OTHER -> s

\* str(idx)
IdxStr(idx) == <<"0", "1", "2", "3", "4", "5", "6", "7", "8", "9">>[idx + 1]

\* repr() of a list of strings
RECURSIVE ListItems(_)
ListItems(xs) ==
  IF xs = <<>> THEN ""
  ELSE IF Len(xs) = 1 THEN "'" \o xs[1] \o "'"
  ELSE "'" \o xs[1] \o "', " \o ListItems(Tail(xs))

ListRepr(xs) == "[" \o ListItems(xs) \o "]"

\* ValidationIssue
ValidationIssue(rule_name, rule_type, path, level, message) ==
  [rule_name |-> rule_name, rule_type |-> rule_type, path |-> path,
   level |-> level, message |-> message]

\* _err and _warn
Err(rule_name, rule_type, path, msg) ==
  ValidationIssue(rule_name, rule_type, path, "ERROR", msg)
Warn(rule_name, rule_type, path, msg) ==
  ValidationIssue(rule_name, rule_type, path, "WARN", msg)

\* [i for i in issues if i.level == "ERROR"]
RECURSIVE Errors(_)
Errors(iss) ==
  IF iss = <<>> THEN <<>>
  ELSE IF Head(iss).level = "ERROR" THEN <<Head(iss)>> \o Errors(Tail(iss))
  ELSE Errors(Tail(iss))

\* k in obj, for the keys _require_keys is asked about; a key of a rule is
\* either absent or holds a value
HasKey(obj, k) ==
  CASE k = "column" -> obj.column # Absent
    [] k = "pattern" -> obj.pattern # Absent
    [] k = "min" -> ~obj.min.null
    [] k = "max" -> ~obj.max.null

\* _require_keys: the issues it appends
RECURSIVE RequireKeys(_, _, _, _, _)
RequireKeys(obj, keys, path, rname, rtype) ==
  IF keys = <<>> THEN <<>>
  ELSE (IF HasKey(obj, Head(keys)) THEN <<>>
        ELSE <<Err(rname, rtype, path \o "." \o Head(keys),
                   "Missing required key '" \o Head(keys) \o "'")>>)
       \o RequireKeys(obj, Tail(keys), path, rname, rtype)

\* _require_list on the key columns: the issues it appends
RequireList(obj, path, rname, rtype) ==
  LET val == obj.columns
      ok == Len(val) > 0 /\ \A k \in 1..Len(val) : Strip(val[k]) # ""
  IN  IF ok THEN <<>>
      ELSE <<Err(rname, rtype, path \o ".columns",
                 "Provide non-empty list of strings in 'columns'")>>

\* [c for c in lst if c not in cols]
RECURSIVE NotIn(_, _)
NotIn(lst, cols) ==
  IF lst = <<>> THEN <<>>
  ELSE IF \E k \in 1..Len(cols) : cols[k] = Head(lst) THEN NotIn(Tail(lst), cols)
  ELSE <<Head(lst)>> \o NotIn(Tail(lst), cols)

\* "not cols": no hint, or an empty one
NoCols(cols) == cols = NoHint \/ cols = <<>>

\* _warn_unknown: the issues it appends
WarnUnknown(obj, key, cols, rname, rtype, path) ==
  IF NoCols(cols) THEN <<>>
  ELSE IF key = "column"
  THEN IF obj.column # Absent /\ NotIn(<<obj.column>>, cols) # <<>>
       THEN <<Warn(rname, rtype, path \o ".column",
                   "Column '" \o obj.column \o "' not in dataset hint")>>
       ELSE <<>>
  ELSE IF NotIn(obj.columns, cols) # <<>>
       THEN <<Warn(rname, rtype, path \o "." \o key,
                   "Columns not in dataset hint: "
                     \o ListRepr(NotIn(obj.columns, cols)))>>
       ELSE <<>>

\* The per-rule validators: each returns the rule as it leaves it and the
\* issues it appends.
Checked(rule, new) == [rule |-> rule, new |-> new, crash |-> FALSE]

\* a per-rule validator left by the exception of int() on a value that is
\* no number, after it appended the issues new
Crashed(rule, new) == [rule |-> rule, new |-> new, crash |-> TRUE]

ValidateHeadersRule(rule, rname, rtype, path, cols) ==
  Checked(rule,
          RequireList(rule, path, rname, rtype)
          \o (IF ~NoCols(cols) /\ NotIn(rule.columns, cols) # <<>>
              THEN <<Warn(rname, rtype, path \o ".columns",
                          "Columns not in dataset hint: "
                            \o ListRepr(NotIn(rule.columns, cols)))>>
              ELSE <<>>))

ValidateNonEmptyRule(rule, rname, rtype, path, cols) ==
  Checked(rule,
          RequireList(rule, path, rname, rtype)
          \o WarnUnknown(rule, "columns", cols, rname, rtype, path))

ValidateRangeRule(rule, rname, rtype, path, cols) ==
  Checked(rule,
          RequireKeys(rule, <<"column", "min", "max">>, path, rname, rtype)
          \o WarnUnknown(rule, "column", cols, rname, rtype, path)
          \o (IF HasKey(rule, "min") /\ HasKey(rule, "max")
              THEN IF ~IsNumber(rule.min) \/ ~IsNumber(rule.max)
                   THEN <<Err(rname, rtype, path \o ".min/max",
                              "min/max must be numeric")>>
                   ELSE IF rule.min.v > rule.max.v
                   THEN <<Err(rname, rtype, path \o ".min/max",
                              "min must be <= max")>>
                   ELSE <<>>
              ELSE <<>>))

ValidateEnumRule(rule, rname, rtype, path, cols) ==
  LET aliased == IF rule.allowed = <<>> /\ rule.allowedValues # <<>>
                 THEN [rule EXCEPT !.allowed = rule.allowedValues]
                 ELSE rule
  IN  Checked(aliased,
              RequireKeys(rule, <<"column">>, path, rname, rtype)
              \o WarnUnknown(rule, "column", cols, rname, rtype, path)
              \o (IF Len(aliased.allowed) = 0
                  THEN <<Err(rname, rtype, path \o ".allowed",
                             "Provide non-empty 'allowed' list")>>
                  ELSE <<>>))

ValidateLengthRule(rule, rname, rtype, path, cols) ==
  LET mn == GetNum(rule.min, RULE_LENGTH_MIN)
      mx == GetNum(rule.max, RULE_LENGTH_MAX)
      first == RequireKeys(rule, <<"column">>, path, rname, rtype)
               \o WarnUnknown(rule, "column", cols, rname, rtype, path)
  IN  IF ~IsNumber(rule.min) \/ ~IsNumber(rule.max)
      THEN Crashed(rule, first)
      ELSE Checked([rule EXCEPT !.min = Num(mn), !.max = Num(mx)],
                   first
                   \o (IF mn < 0 \/ mx < 0 \/ mn > mx
                       THEN <<Err(rname, rtype, path \o ".min/max",
                                  "0 <= min <= max required")>>
                       ELSE <<>>))

\* re.compile(str(pattern)) on the patterns of the rule catalogue: the
\* error text, or "" when the pattern compiles
RegexError(pattern) ==
  IF pattern = "[0-9" THEN "unterminated character set at position 0" ELSE ""

ValidateRegexRule(rule, rname, rtype, path, cols) ==
  Checked(rule,
          RequireKeys(rule, <<"column", "pattern">>, path, rname, rtype)
          \o WarnUnknown(rule, "column", cols, rname, rtype, path)
          \o (IF RegexError(Get(rule.pattern, "")) # ""
              THEN <<Err(rname, rtype, path \o ".pattern",
                         "Invalid regex: " \o RegexError(Get(rule.pattern, "")))>>
              ELSE <<>>))

ValidateUniqueRule(rule, rname, rtype, path, cols) ==
  Checked(rule,
          RequireList(rule, path, rname, rtype)
          \o WarnUnknown(rule, "columns", cols, rname, rtype, path))

\* the issues of the numeric check of one bound of a decimal rule
DecimalBoundIssue(rule, b, rname, rtype, path) ==
  IF HasKey(rule, b) /\ ~IsNumber(IF b = "min" THEN rule.min ELSE rule.max)
  THEN <<Err(rname, rtype, path \o "." \o b,
             "'" \o b \o "' must be numeric if provided")>>
  ELSE <<>>

ValidateDecimalRule(rule, rname, rtype, path, cols) ==
  LET prec == GetNum(rule.precision, default_precision)
      scale == GetNum(rule.scale, default_scale)
      first == RequireKeys(rule, <<"column">>, path, rname, rtype)
               \o WarnUnknown(rule, "column", cols, rname, rtype, path)
  IN  IF ~IsNumber(rule.precision) \/ ~IsNumber(rule.scale)
      THEN Crashed(rule, first)
      ELSE Checked([rule EXCEPT !.precision = Num(prec), !.scale = Num(scale)],
                   first
                   \o (IF prec <= 0 \/ scale < 0 \/ scale > prec
                       THEN <<Err(rname, rtype, path \o ".precision/scale",
                                  "Require precision>0 and 0<=scale<=precision")>>
                       ELSE <<>>)
                   \o DecimalBoundIssue(rule, "min", rname, rtype, path)
                   \o DecimalBoundIssue(rule, "max", rname, rtype, path))

\* self.validators[rtype](rule, rname, rtype, path, self.dataset_columns,
\* issues)
Dispatch(rule, rname, rtype, path, cols) ==
  CASE rtype = "headers" -> ValidateHeadersRule(rule, rname, rtype, path, cols)
    [] rtype = "non_empty" -> ValidateNonEmptyRule(rule, rname, rtype, path, cols)
    [] rtype = "range" -> ValidateRangeRule(rule, rname, rtype, path, cols)
    [] rtype = "enum" -> ValidateEnumRule(rule, rname, rtype, path, cols)
    [] rtype = "length" -> ValidateLengthRule(rule, rname, rtype, path, cols)
    [] rtype = "regex" -> ValidateRegexRule(rule, rname, rtype, path, cols)
    [] rtype = "unique" -> ValidateUniqueRule(rule, rname, rtype, path, cols)
    [] rtype = "decimal" -> ValidateDecimalRule(rule, rname, rtype, path, cols)

\* One iteration of the loop of RuleSchemaValidator.validate on the rule at
\* index idx (from 0): the rule as it leaves it, the issue list after it,
\* whether it counts for names_seen and headers_count, whether validate stops
\* at it, the message of the ValueError if it raises there, and whether the
\* per-rule validator left by an exception of its own.
RuleType(rule) == Strip(rule.type)

RuleName(rule, idx) ==
  IF Strip(rule.name) = "" THEN "rule_" \o IdxStr(idx) ELSE Strip(rule.name)

Iteration(rule, iss, counted, stop, message) ==
  [rule |-> rule, issues |-> iss, counted |-> counted, stop |-> stop,
   message |-> message, crash |-> FALSE]

CheckDispatched(d, before, ff) ==
  IF d.crash
  THEN [rule |-> d.rule, issues |-> before \o d.new, counted |-> TRUE,
        stop |-> FALSE, message |-> "invalid literal for int()",
        crash |-> TRUE]
  ELSE Iteration(d.rule, before \o d.new, TRUE,
                 ff /\ Errors(before \o d.new) # <<>>,
                 IF Errors(before \o d.new) # <<>>
                 THEN Errors(before \o d.new)[Len(Errors(before \o d.new))].message
                 ELSE "")

CheckNamed(named, idx, iss, seen, cols, ff, rname, rtype, path) ==
  IF ~IsSupported(rtype)
  THEN Iteration(named,
                 Append(iss, Err(rname, rtype, path,
                                 "Unsupported type '" \o rtype \o "'. Supported: "
                                   \o ListRepr(SUPPORTED_TYPES))),
                 FALSE, ff,
                 "Unsupported type '" \o rtype \o "'. Supported: "
                   \o ListRepr(SUPPORTED_TYPES))
  ELSE IF rname \in seen /\ ff
  THEN Iteration(named, Append(iss, Err(rname, rtype, path, "Duplicate rule name")),
                 FALSE, TRUE, "Duplicate rule name")
  ELSE CheckDispatched(Dispatch(named, rname, rtype, path, cols),
                       IF rname \in seen
                       THEN Append(iss, Err(rname, rtype, path, "Duplicate rule name"))
                       ELSE iss,
                       ff)

CheckRule(rule, idx, iss, seen, cols, ff) ==
  CheckNamed([rule EXCEPT !.name = RuleName(rule, idx)], idx, iss, seen, cols,
             ff, RuleName(rule, idx), RuleType(rule), "[" \o IdxStr(idx) \o "]")

\* the cross-rule advisories appended after the loop
Advisories(hc, cols) ==
  (IF hc = 0 /\ cols # NoHint
   THEN <<Warn("<schema>", "headers", "$",
               "No 'headers' rule present; column presence not enforced.")>>
   ELSE <<>>)
  \o (IF hc > 1
      THEN <<Warn("<schema>", "headers", "$",
                  "Multiple 'headers' rules present; consider consolidating.")>>
      ELSE <<>>)

\* ------------------------------------------------------- flatten_utils
\* the bounds of the loops of flatten_all and _flatten_structs_optimized
MAX_ITERATIONS == 100
MAX_DEPTH_DEFAULT == 100

\* sep
Sep == "."

\* the messages of the RuntimeErrors of the two loops
DepthLimitError == "Maximum flattening depth exceeded"
ExplosionLimitError == "Maximum array explosion iterations exceeded"

\* Data types: a string-like leaf, T.StructType, T.ArrayType. A type of many
\* equal layers is kept as the number of its layers (chain), and unfolded one
\* layer at a time by FieldsOf and ElemOf.
AtomType ==
  [k |-> "atom", fields |-> <<>>, elem |-> <<>>, chain |-> 0, alt |-> FALSE]
StructType(fs) ==
  [k |-> "struct", fields |-> fs, elem |-> <<>>, chain |-> 0, alt |-> FALSE]
ArrayType(t) ==
  [k |-> "array", fields |-> <<>>, elem |-> <<t>>, chain |-> 0, alt |-> FALSE]

\* T.StructField
Field(n, t) == [name |-> n, type |-> t]

\* n nested structs around a leaf, each with the one field a:
\* struct<a: struct<a: ...>>
StructChainType(n) ==
  IF n = 0 THEN AtomType
  ELSE [k |-> "struct", fields |-> <<>>, elem |-> <<>>, chain |-> n,
        alt |-> FALSE]

\* n nested arrays of structs around a leaf, each struct with the one field
\* a: array<struct<a: array<...>>>
ArrayChainType(n) ==
  IF n = 0 THEN AtomType
  ELSE [k |-> "array", fields |-> <<>>, elem |-> <<>>, chain |-> n,
        alt |-> TRUE]

\* dataType.fields of a struct type
FieldsOf(t) ==
  IF t.chain = 0 THEN t.fields
  ELSE IF t.alt THEN <<Field("a", ArrayChainType(t.chain - 1))>>
  ELSE <<Field("a", StructChainType(t.chain - 1))>>

\* dataType.elementType of an array type
ElemOf(t) ==
  IF t.chain = 0 THEN t.elem[1]
  ELSE [k |-> "struct", fields |-> <<>>, elem |-> <<>>, chain |-> t.chain,
        alt |-> TRUE]

IsStruct(t) == t.k = "struct"
\* isinstance(f.dataType, T.ArrayType) and
\* isinstance(f.dataType.elementType, T.StructType)
IsArrayOfStruct(t) == t.k = "array" /\ ElemOf(t).k = "struct"

\* Values: the SQL NULL, a leaf, a struct (its field values), an array (its
\* elements)
NullVal == [k |-> "null", items |-> <<>>]
AtomVal == [k |-> "atom", items |-> <<>>]
StructVal(vs) == [k |-> "struct", items |-> vs]
ArrayVal(vs) == [k |-> "array", items |-> vs]

\* a relation: df.schema.fields and the rows, each row holding one value per
\* field
Relation(fields, rows) == [schema |-> fields, data |-> rows]

\* any(isinstance(f.dataType, T.StructType) for f in schema_fields)
HasStructsFields(fs) == \E k \in 1..Len(fs) : IsStruct(fs[k].type)

\* two columns of one name: F.col of that name is an ambiguous reference
AmbiguousNames(fs) ==
  \E a, b \in 1..Len(fs) : a # b /\ fs[a].name = fs[b].name

\* the column list of one projection pass: the fields of the new schema
RECURSIVE ExpandFields(_)
ExpandFields(fs) ==
  IF fs = <<>> THEN <<>>
  ELSE LET f == Head(fs)
       IN  (IF IsStruct(f.type)
            THEN [j \in 1..Len(FieldsOf(f.type)) |->
                    Field(f.name \o Sep \o FieldsOf(f.type)[j].name,
                          FieldsOf(f.type)[j].type)]
            ELSE <<f>>)
           \o ExpandFields(Tail(fs))

\* the values of one row under the column list of one projection pass: a
\* field of a NULL struct is NULL
RECURSIVE ExpandRow(_, _)
ExpandRow(fs, row) ==
  IF fs = <<>> THEN <<>>
  ELSE LET f == Head(fs)
           v == Head(row)
       IN  (IF IsStruct(f.type)
            THEN [j \in 1..Len(FieldsOf(f.type)) |->
                    IF v.k = "null" THEN NullVal ELSE v.items[j]]
            ELSE <<v>>)
           \o ExpandRow(Tail(fs), Tail(row))

\* out.select(*cols) of one pass of _flatten_structs_optimized
SelectExpanded(r) ==
  Relation(ExpandFields(r.schema),
           [k \in 1..Len(r.data) |-> ExpandRow(r.schema, r.data[k])])

\* the position of array_struct_fields[-1], 0 when there is none
LastArrayOfStruct(fs) ==
  IF \E k \in 1..Len(fs) : IsArrayOfStruct(fs[k].type)
  THEN CHOOSE k \in 1..Len(fs) :
         /\ IsArrayOfStruct(fs[k].type)
         /\ \A j \in (k + 1)..Len(fs) : ~IsArrayOfStruct(fs[j].type)
  ELSE 0

\* the position of array_struct_fields[0], 0 when there is none
FirstArrayOfStruct(fs) ==
  IF \E k \in 1..Len(fs) : IsArrayOfStruct(fs[k].type)
  THEN CHOOSE k \in 1..Len(fs) :
         /\ IsArrayOfStruct(fs[k].type)
         /\ \A j \in 1..(k - 1) : ~IsArrayOfStruct(fs[j].type)
  ELSE 0

\* the rows explode_outer makes of one row on the column at position c: one
\* per element, one with a NULL when the array is NULL or empty
ExplodeOuterRow(row, c) ==
  IF row[c].k = "null" \/ row[c].items = <<>>
  THEN <<[row EXCEPT ![c] = NullVal]>>
  ELSE [e \in 1..Len(row[c].items) |-> [row EXCEPT ![c] = row[c].items[e]]]

\* the rows explode makes of one row: none when the array is NULL or empty
ExplodeRow(row, c) ==
  IF row[c].k = "null" \/ row[c].items = <<>>
  THEN <<>>
  ELSE [e \in 1..Len(row[c].items) |-> [row EXCEPT ![c] = row[c].items[e]]]

RECURSIVE ExplodeRowsInner(_, _)
ExplodeRowsInner(rows, c) ==
  IF rows = <<>> THEN <<>>
  ELSE ExplodeRow(Head(rows), c) \o ExplodeRowsInner(Tail(rows), c)

RECURSIVE ExplodeRows(_, _)
ExplodeRows(rows, c) ==
  IF rows = <<>> THEN <<>>
  ELSE ExplodeOuterRow(Head(rows), c) \o ExplodeRows(Tail(rows), c)

\* the explosion with explode: the rows of a NULL or empty array are dropped
ExplodeColumnInner(r, c) ==
  Relation([r.schema EXCEPT ![c].type = ElemOf(r.schema[c].type)],
           ExplodeRowsInner(r.data, c))

\* df.withColumn(f.name, F.explode_outer(F.col(f.name))) on the column at
\* position c
ExplodeColumn(r, c) ==
  Relation([r.schema EXCEPT ![c].type = ElemOf(r.schema[c].type)],
           ExplodeRows(r.data, c))

\* ----------------------------------------------------- flatten_by_rules
\* A path is kept as the list of its parts, path.split(sep); sep.join of the
\* parts is the path as a string.
RECURSIVE JoinSep(_)
JoinSep(parts) ==
  IF Len(parts) = 0 THEN ""
  ELSE IF Len(parts) = 1 THEN parts[1]
  ELSE parts[1] \o Sep \o JoinSep(Tail(parts))

\* the rule paths without their repetitions, in first-occurrence order
RECURSIVE Distinct(_)
Distinct(ps) ==
  IF ps = <<>> THEN <<>>
  ELSE LET front == Distinct(SubSeq(ps, 1, Len(ps) - 1))
           last == ps[Len(ps)]
       IN  IF \E k \in 1..Len(front) : front[k] = last THEN front
           ELSE Append(front, last)

\* next((f for f in current_type.fields if f.name == part), None): the
\* position of the field, 0 for None
FieldNamed(fs, part) ==
  IF \E k \in 1..Len(fs) : fs[k].name = part
  THEN CHOOSE k \in 1..Len(fs) :
         fs[k].name = part /\ \A j \in 1..(k - 1) : fs[j].name # part
  ELSE 0

\* the walk of _collect_required_arrays along the parts of one path: the
\* array paths met, as lists of parts
RECURSIVE ArraysOnPath(_, _, _)
ArraysOnPath(t, parts, sofar) ==
  IF parts = <<>> THEN <<>>
  ELSE IF IsStruct(t)
  THEN LET pos == FieldNamed(FieldsOf(t), Head(parts))
       IN  IF pos = 0 THEN <<>>
           ELSE LET dtype == FieldsOf(t)[pos].type
                    here == Append(sofar, Head(parts))
                IN  IF dtype.k = "array"
                    THEN <<here>> \o ArraysOnPath(ElemOf(dtype), Tail(parts), here)
                    ELSE ArraysOnPath(dtype, Tail(parts), here)
  ELSE IF t.k = "array" THEN ArraysOnPath(ElemOf(t), Tail(parts), sofar)
  ELSE <<>>

RECURSIVE ArraysOnPaths(_, _)
ArraysOnPaths(fs, ps) ==
  IF ps = <<>> THEN <<>>
  ELSE ArraysOnPath(StructType(fs), Head(ps), <<>>) \o ArraysOnPaths(fs, Tail(ps))

\* _collect_required_arrays
CollectRequiredArrays(fs, ps) == Distinct(ArraysOnPaths(fs, ps))

\* arrays.sort(key = lambda p: p.count(sep)): the stable sort by the number
\* of parts
RECURSIVE SortByParts(_, _)
SortByParts(arrs, n) ==
  IF \A k \in 1..Len(arrs) : Len(arrs[k]) < n THEN <<>>
  ELSE Pick(arrs, {k \in 1..Len(arrs) : Len(arrs[k]) = n})
       \o SortByParts(arrs, n + 1)

\* the walk of _path_exists along the parts of a path
RECURSIVE Walks(_, _)
Walks(t, parts) ==
  IF parts = <<>> THEN TRUE
  ELSE IF IsStruct(t)
  THEN LET pos == FieldNamed(FieldsOf(t), Head(parts))
       IN  IF pos = 0 THEN FALSE
           ELSE Walks(FieldsOf(t)[pos].type, Tail(parts))
  ELSE IF t.k = "array" THEN Walks(ElemOf(t), Tail(parts))
  ELSE FALSE

\* _path_exists
PathExists(fs, parts) ==
  \/ \E k \in 1..Len(fs) : fs[k].name = JoinSep(parts)
  \/ Walks(StructType(fs), parts)

\* F.col of the back-quoted name: the position of the one top-level column
\* of that name; 0 when there is none or more than one, where the analyzer
\* rejects the reference
Resolve(fs, name) ==
  IF \E k \in 1..Len(fs) :
       fs[k].name = name /\ \A j \in 1..Len(fs) : fs[j].name = name => j = k
  THEN CHOOSE k \in 1..Len(fs) : fs[k].name = name
  ELSE 0

\* the loop of withColumn(arr_path, F.explode_outer(F.col(arr_path))): the
\* relation, or the AnalysisException of a column that does not resolve or
\* is no array
RECURSIVE ExplodeArrays(_, _)
ExplodeArrays(r, arrs) ==
  IF arrs = <<>> THEN [ok |-> TRUE, rel |-> r]
  ELSE LET c == Resolve(r.schema, JoinSep(Head(arrs)))
       IN  IF c = 0 THEN [ok |-> FALSE, rel |-> r]
           ELSE IF r.schema[c].type.k # "array" THEN [ok |-> FALSE, rel |-> r]
           ELSE ExplodeArrays(ExplodeColumn(r, c), Tail(arrs))

\* the paths _path_exists does not find
MissingPaths(fs, ps) ==
  Pick(ps, {k \in 1..Len(ps) : ~PathExists(fs, ps[k])})

\* df.select(*select_cols): a column per path, F.col of the path when it
\* exists and F.lit(None) otherwise
SelectPaths(r, ps) ==
  Relation([k \in 1..Len(ps) |->
              IF PathExists(r.schema, ps[k])
              THEN Field(JoinSep(ps[k]),
                         r.schema[Resolve(r.schema, JoinSep(ps[k]))].type)
              ELSE Field(JoinSep(ps[k]), AtomType)],
           [n \in 1..Len(r.data) |->
              [k \in 1..Len(ps) |->
                 IF PathExists(r.schema, ps[k])
                 THEN r.data[n][Resolve(r.schema, JoinSep(ps[k]))]
                 ELSE NullVal]])

\* flatten_by_rules(r, rule_paths = targets, explode_arrays = ea): the
\* outcome, the relation and the warnings
FlattenByRulesOf(r, targets, ea) ==
  LET ps == Distinct(targets)
      arrs == SortByParts(CollectRequiredArrays(r.schema, ps), 1)
      warned == IF arrs # <<>> /\ ~ea
                THEN <<[warning |-> "Arrays detected in rule paths",
                        paths |-> <<>>]>>
                ELSE <<>>
      ex == IF ea THEN ExplodeArrays(r, arrs) ELSE [ok |-> TRUE, rel |-> r]
  IN  IF ~ex.ok
      THEN [kind |-> "raise", error |-> "AnalysisException", out |-> ex.rel,
            log |-> warned]
      ELSE IF \E k \in 1..Len(ps) :
                /\ PathExists(ex.rel.schema, ps[k])
                /\ Resolve(ex.rel.schema, JoinSep(ps[k])) = 0
      THEN [kind |-> "raise", error |-> "AnalysisException", out |-> ex.rel,
            log |-> warned]
      ELSE [kind |-> "return", error |-> "",
            out |-> SelectPaths(ex.rel, ps),
            log |-> warned \o
                    (IF MissingPaths(ex.rel.schema, ps) # <<>>
                     THEN <<[warning |-> "Rule paths not found in schema",
                             paths |-> MissingPaths(ex.rel.schema, ps)]>>
                     ELSE <<>>)]

\* ------------------------------------------------------------------- state
VARIABLES
  df,           \* the input relation
  rules,        \* the rule list passed to validate
  id_cols,      \* self.id_cols
  fail_fast,    \* self.fail_fast
  fail_mode,    \* self.fail_mode
  error_limit,  \* the error_limit argument
  pc,           \* where validate stands: "headers", "data", "done"
  i,            \* the index of the next rule of the running loop
  violations,   \* the list of capped partials collected by the data pass
  evaluated,    \* the indices of the rules handed to _run, in call order
  ret,          \* the outcome: what validate returned, or the raise
  issues,       \* RuleSchemaValidator.validate: the issue list
  names_seen,   \* RuleSchemaValidator.validate: the rule names met so far
  headers_count, \* RuleSchemaValidator.validate: the headers rules met so far
  out,          \* flatten_utils: the relation being flattened (out, df)
  depth,        \* _flatten_structs_optimized: the passes made by this call
  max_depth,    \* _flatten_structs_optimized: the bound on its passes
  iteration,    \* flatten_all: the iterations of the explosion loop so far
  exploded,     \* flatten_all: the names of the exploded columns
  explode_arrays, \* the explode_arrays argument
  rule_paths,   \* flatten_by_rules: the target paths
  log           \* flatten_by_rules: the warnings issued by warnings.warn

inputs == <<df, rules, id_cols, fail_fast, fail_mode, error_limit>>
\* the locals of RuleSchemaValidator.validate; SparkDataValidator.validate
\* has no access to them
nvars == <<issues, names_seen, headers_count>>
\* the state of flatten_utils; the validators have no access to it
fvars == <<out, depth, max_depth, iteration, exploded, explode_arrays,
           rule_paths, log>>
vars == <<df, rules, id_cols, fail_fast, fail_mode, error_limit, pc, i,
          violations, evaluated, ret, issues, names_seen, headers_count,
          out, depth, max_depth, iteration, exploded, explode_arrays,
          rule_paths, log>>

\* flatten_utils has not been called
FlattenIdle ==
  /\ out = Relation(<<>>, <<>>)
  /\ depth = 0
  /\ max_depth = MAX_DEPTH_DEFAULT
  /\ iteration = 0
  /\ exploded = <<>>
  /\ explode_arrays = FALSE
  /\ rule_paths = <<>>
  /\ log = <<>>

NoOutcome ==
  [kind |-> "none", is_valid |-> FALSE, valid_df |-> <<>>, errors_df |-> <<>>]

\* ------------------------------------------------------------------ inputs
IdVals == <<NULL, <<"1">>, <<"2">>>>
ValVals == <<<<"5">>, <<"5", "0">>>>

NumRowKinds == Len(IdVals) * Len(ValVals)

\* the n-th row of the enumeration of all rows over IdVals and ValVals
RowAt(n) ==
  [c \in {"id", "val"} |->
     IF c = "id" THEN IdVals[((n - 1) \div Len(ValVals)) + 1]
     ELSE ValVals[((n - 1) % Len(ValVals)) + 1]]

\* the relations of at most max rows over the rows RowAt, one sequence per
\* multiset
RelationsUpTo(max) ==
  UNION {{[k \in 1..n |-> RowAt(f[k])] :
            f \in {g \in [1..n -> 1..NumRowKinds] :
                     \A k \in 1..(n - 1) : g[k] <= g[k + 1]}} :
         n \in 0..max}

Relations == RelationsUpTo(MaxRows)

RuleCatalog ==
  {[Rule("headers", "hdr") EXCEPT !.columns = <<"id", "extra">>],
   [Rule("headers", "hdr_ok") EXCEPT !.columns = <<"id", "val">>],
   [Rule("non_empty", "req") EXCEPT !.columns = <<"id", "val">>],
   [Rule("range", "rng") EXCEPT !.column = "val", !.min = Num(0), !.max = Num(10)],
   [Rule("unique", "uniq") EXCEPT !.columns = <<"val">>],
   Rule("bogus", "odd")}

RuleLists == UNION {[1..n -> RuleCatalog] : n \in 0..MaxRules}

IdColChoices == {<<>>, <<"id">>, <<"id", "val">>}
ErrorLimits == {0, 1, 2}

Start ==
  /\ pc = "headers"
  /\ i = 1
  /\ violations = <<>>
  /\ evaluated = <<>>
  /\ ret = NoOutcome
  /\ issues = <<>>
  /\ names_seen = {}
  /\ headers_count = 0
  /\ FlattenIdle

Init ==
  /\ df \in Relations
  /\ rules \in RuleLists
  /\ id_cols \in IdColChoices
  /\ fail_fast \in BOOLEAN
  /\ fail_mode \in {"return", "raise"}
  /\ error_limit \in ErrorLimits
  /\ Start

\* The inputs of the unique rule: one unique rule over each choice of key
\* columns, on relations of up to MaxRows + 1 rows.
UniqueRules ==
  {[Rule("unique", "uniq") EXCEPT !.columns = K] :
     K \in {<<"id">>, <<"val">>, <<"id", "val">>}}

InitUnique ==
  /\ df \in RelationsUpTo(MaxRows + 1)
  /\ rules \in {<<u>> : u \in UniqueRules}
  /\ id_cols \in IdColChoices
  /\ fail_fast \in BOOLEAN
  /\ fail_mode \in {"return", "raise"}
  /\ error_limit \in ErrorLimits
  /\ Start

\* The inputs of the decimal rule: one row whose val is any text of at most
\* MaxTextLen characters over DecimalChars, or NULL, and one decimal rule.
DecimalChars == {"1", "5", ".", "-", " "}

Texts == UNION {[1..n -> DecimalChars] : n \in 0..MaxTextLen} \cup {NULL}

DecimalRules ==
  {[Rule("decimal", "dec") EXCEPT !.column = "val", !.precision = p,
      !.scale = Num(sc), !.exact_scale = ex, !.min = mn, !.max = mx] :
     p \in {NoNum, Num(4)}, sc \in 0..2, ex \in BOOLEAN,
     mn \in {NoNum, Num(1)}, mx \in {NoNum, Num(5)}}

InitDecimal ==
  /\ df \in {<<[c \in {"id", "val"} |-> IF c = "id" THEN <<"1">> ELSE t]>> :
              t \in Texts}
  /\ rules \in {<<d>> : d \in DecimalRules}
  /\ id_cols = <<"id">>
  /\ fail_fast = FALSE
  /\ fail_mode = "return"
  /\ error_limit \in ErrorLimits
  /\ Start

\* The inputs of the per-row rules: relations whose cells are NULL, blank or
\* text, and one per-row rule, named or unnamed, on the column val (non_empty
\* also over both columns).
PerRowCells == <<NULL, <<" ">>, <<"5">>, <<"a">>>>

PerRowAt(n) ==
  [c \in {"id", "val"} |->
     IF c = "id" THEN PerRowCells[((n - 1) \div Len(PerRowCells)) + 1]
     ELSE PerRowCells[((n - 1) % Len(PerRowCells)) + 1]]

PerRowRelations ==
  UNION {{[k \in 1..n |-> PerRowAt(f[k])] :
            f \in {g \in [1..n -> 1..(Len(PerRowCells) * Len(PerRowCells))] :
                     \A k \in 1..(n - 1) : g[k] <= g[k + 1]}} :
         n \in 0..MaxRows}

PerRowRules ==
  UNION {{[Rule("non_empty", nm) EXCEPT !.columns = <<"val">>],
          [Rule("non_empty", nm) EXCEPT !.columns = <<"id", "val">>],
          [Rule("range", nm) EXCEPT !.column = "val", !.min = Num(0),
                                    !.max = Num(10)],
          [Rule("enum", nm) EXCEPT !.column = "val",
                                   !.allowed = <<<<"5">>, <<"a">>>>],
          [Rule("enum", nm) EXCEPT !.column = "val",
                                   !.allowedValues = <<<<"5">>, NULL>>],
          [Rule("length", nm) EXCEPT !.column = "val"],
          [Rule("length", nm) EXCEPT !.column = "val", !.min = Num(1),
                                     !.max = Num(1)],
          [Rule("regex", nm) EXCEPT !.column = "val", !.pattern = "[0-9]"],
          [Rule("decimal", nm) EXCEPT !.column = "val"]} :
         nm \in {"chk", Absent}}

InitPerRow ==
  /\ df \in PerRowRelations
  /\ rules \in {<<r>> : r \in PerRowRules}
  /\ id_cols \in {<<>>, <<"id">>}
  /\ fail_fast \in BOOLEAN
  /\ fail_mode \in {"return", "raise"}
  /\ error_limit \in {0, MaxRows}
  /\ Start

\* The rule documents handed to RuleSchemaValidator.validate: well-formed
\* and ill-formed rules of several types, named, unnamed, with clashing
\* names, with padded type and name texts, and of unsupported type.
NormCatalog ==
  {[Rule("headers", "hdr") EXCEPT !.columns = <<"id", "val">>],
   [Rule("headers", "chk") EXCEPT !.columns = <<"id", "extra">>],
   [Rule("non_empty", "chk") EXCEPT !.columns = <<"id">>],
   [Rule("non_empty", Absent) EXCEPT !.columns = <<>>],
   [Rule("range", "rule_1") EXCEPT !.column = "val", !.min = Num(0),
                                   !.max = Num(10)],
   [Rule(" range ", " chk ") EXCEPT !.column = "val", !.min = Num(0),
                                    !.max = Num(10)],
   [Rule("range", "rg") EXCEPT !.column = "val", !.min = Num(10),
                               !.max = Num(0)],
   [Rule("range", Absent) EXCEPT !.column = "val", !.min = NotANumber,
                                 !.max = Num(1)],
   [Rule("enum", "chk") EXCEPT !.column = "val",
                               !.allowedValues = <<<<"5">>>>],
   [Rule("enum", "en") EXCEPT !.column = "other"],
   [Rule("length", Absent) EXCEPT !.column = "val"],
   [Rule("length", "len") EXCEPT !.min = Num(2), !.max = Num(1)],
   [Rule("length", "chk") EXCEPT !.column = "val", !.min = NotANumber],
   [Rule("length", "len") EXCEPT !.max = NotANumber],
   [Rule("decimal", "dec") EXCEPT !.column = "val", !.scale = NotANumber],
   [Rule("regex", "re") EXCEPT !.column = "val", !.pattern = "[0-9"],
   [Rule("unique", "chk") EXCEPT !.columns = <<"id", "val">>],
   [Rule("decimal", "dec") EXCEPT !.column = "val"],
   [Rule("decimal", "dec") EXCEPT !.column = "val", !.precision = Num(1),
                                  !.scale = Num(2), !.max = NotANumber],
   Rule("bogus", "chk"),
   Rule(Absent, Absent)}

NormRuleLists == UNION {[1..n -> NormCatalog] : n \in 0..MaxRules}

\* what RuleSchemaValidator.validate has returned or raised: nothing yet
NormNoOutcome ==
  [kind |-> "none", is_valid |-> FALSE, rules |-> <<>>, issues |-> <<>>,
   message |-> ""]

InitNorm ==
  /\ rules \in NormRuleLists
  /\ id_cols \in {NoHint, <<>>, <<"id">>}
  /\ fail_fast \in BOOLEAN
  /\ fail_mode \in {"return", "raise"}
  /\ df = <<>>
  /\ error_limit = 0
  /\ violations = <<>>
  /\ pc = "rules"
  /\ i = 1
  /\ evaluated = <<>>
  /\ ret = NormNoOutcome
  /\ issues = <<>>
  /\ names_seen = {}
  /\ headers_count = 0
  /\ FlattenIdle

\* ----------------------------------------------------------------- actions
AnyHasRows(parts) == \E k \in 1..Len(parts) : HasRows(parts[k])

\* the partial at which "for v in parts: if self._has_rows(v)" first fires
FirstWithRows(parts) ==
  parts[CHOOSE k \in 1..Len(parts) :
          HasRows(parts[k]) /\ \A j \in 1..(k - 1) : ~HasRows(parts[j])]

\* the fail-fast exit returning the partial without its limit
FailFastExitUncapped(v) ==
  /\ IF fail_mode = "raise"
     THEN \E sample \in Limit(v, RAISE_SAMPLE) :
            ret' = [kind |-> "raise", is_valid |-> FALSE, valid_df |-> <<>>,
                    errors_df |-> sample]
     ELSE ret' = [kind |-> "return", is_valid |-> FALSE, valid_df |-> df,
                  errors_df |-> v]
  /\ pc' = "done"

\* the fail-fast exit on the partial v: the raise with its sample, or the
\* return of (False, df, v.limit(error_limit))
FailFastExit(v) ==
  /\ IF fail_mode = "raise"
     THEN \E sample \in Limit(v, RAISE_SAMPLE) :
            ret' = [kind |-> "raise", is_valid |-> FALSE, valid_df |-> <<>>,
                    errors_df |-> sample]
     ELSE \E e \in Limit(v, error_limit) :
            ret' = [kind |-> "return", is_valid |-> FALSE, valid_df |-> df,
                    errors_df |-> e]
  /\ pc' = "done"

\* the headers loop without its fail-fast exit: the rule is run and its
\* partials are dropped
HeadersRuleNoExit ==
  /\ pc = "headers"
  /\ i <= Len(rules)
  /\ IF rules[i].type = "headers"
     THEN evaluated' = Append(evaluated, i)
     ELSE UNCHANGED evaluated
  /\ i' = i + 1
  /\ UNCHANGED <<inputs, nvars, fvars, violations, pc, ret>>

\* one iteration of the headers loop of validate
HeadersRule ==
  /\ pc = "headers"
  /\ i <= Len(rules)
  /\ IF rules[i].type = "headers"
     THEN \E parts \in Run(id_cols, df, rules[i]) :
            /\ evaluated' = Append(evaluated, i)
            /\ IF fail_fast /\ AnyHasRows(parts)
               THEN FailFastExit(FirstWithRows(parts)) /\ i' = i
               ELSE i' = i + 1 /\ UNCHANGED <<pc, ret>>
     ELSE i' = i + 1 /\ UNCHANGED <<evaluated, pc, ret>>
  /\ UNCHANGED <<inputs, nvars, fvars, violations>>

\* the headers loop is over: the data loop starts
StartDataPass ==
  /\ pc = "headers"
  /\ i > Len(rules)
  /\ pc' = "data"
  /\ i' = 1
  /\ UNCHANGED <<inputs, nvars, fvars, violations, evaluated, ret>>

\* the data loop without its fail-fast exit: every rule is collected
DataRuleNoExit ==
  /\ pc = "data"
  /\ i <= Len(rules)
  /\ IF rules[i].type = "headers"
     THEN UNCHANGED <<violations, evaluated>>
     ELSE \E parts \in Run(id_cols, df, rules[i]) :
            /\ evaluated' = Append(evaluated, i)
            /\ \E capped \in LimitEach(parts, error_limit) :
                 violations' = violations \o capped
  /\ i' = i + 1
  /\ UNCHANGED <<inputs, nvars, fvars, pc, ret>>

\* one iteration of the data loop of validate
DataRule ==
  /\ pc = "data"
  /\ i <= Len(rules)
  /\ IF rules[i].type = "headers"
     THEN i' = i + 1 /\ UNCHANGED <<violations, evaluated, pc, ret>>
     ELSE \E parts \in Run(id_cols, df, rules[i]) :
            /\ evaluated' = Append(evaluated, i)
            /\ IF parts # <<>> /\ fail_fast /\ AnyHasRows(parts)
               THEN /\ FailFastExit(FirstWithRows(parts))
                    /\ UNCHANGED <<i, violations>>
               ELSE /\ \E capped \in LimitEach(parts, error_limit) :
                         violations' = violations \o capped
                    /\ i' = i + 1
                    /\ UNCHANGED <<pc, ret>>
  /\ UNCHANGED <<inputs, nvars, fvars>>

\* the data loop is over: return self._finalize(df, violations)
Return ==
  /\ pc = "data"
  /\ i > Len(rules)
  /\ ret' = Finalize(id_cols, df, violations)
  /\ pc' = "done"
  /\ UNCHANGED <<inputs, nvars, fvars, i, violations, evaluated>>

Next == HeadersRule \/ StartDataPass \/ DataRule \/ Return

Spec == Init /\ [][Next]_vars

\* validate on the inputs of the unique rule
SpecUnique == InitUnique /\ [][Next]_vars

\* validate on the inputs of the decimal rule
SpecDecimal == InitDecimal /\ [][Next]_vars

\* validate on the inputs of the per-row rules
SpecPerRow == InitPerRow /\ [][Next]_vars

\* --------------------------------- actions of RuleSchemaValidator.validate
\* Here rules is the document handed to validate, id_cols the constructor's
\* id_cols (self.dataset_columns), i the loop position (idx + 1), evaluated
\* the indices of the rules the loop has looked at, ret the outcome.

\* the fail-fast exit at the rule it: the raise, or return False, rules,
\* issues
NormStop(it) ==
  /\ ret' = IF fail_mode = "raise"
            THEN [kind |-> "raise", is_valid |-> FALSE, rules |-> <<>>,
                  issues |-> <<>>,
                  message |-> "Rule validation failed: " \o it.message]
            ELSE [kind |-> "return", is_valid |-> FALSE, rules |-> rules',
                  issues |-> it.issues, message |-> ""]
  /\ pc' = "done"
  /\ UNCHANGED <<i, names_seen, headers_count>>

\* the loop going on to the next rule
NormContinue(it) ==
  /\ names_seen' = IF it.counted THEN names_seen \cup {it.rule.name}
                   ELSE names_seen
  /\ headers_count' = IF it.counted /\ RuleType(it.rule) = "headers"
                      THEN headers_count + 1 ELSE headers_count
  /\ i' = i + 1
  /\ UNCHANGED <<pc, ret>>

\* the exception of a per-rule validator leaves validate
NormCrash(it) ==
  /\ ret' = [kind |-> "raise", is_valid |-> FALSE, rules |-> <<>>,
             issues |-> <<>>, message |-> it.message]
  /\ pc' = "done"
  /\ UNCHANGED <<i, names_seen, headers_count>>

\* one iteration of the loop over the rules
NormalizeRule ==
  /\ pc = "rules"
  /\ i <= Len(rules)
  /\ LET it == CheckRule(rules[i], i - 1, issues, names_seen, id_cols, fail_fast)
     IN  /\ rules' = [rules EXCEPT ![i] = it.rule]
         /\ issues' = it.issues
         /\ evaluated' = Append(evaluated, i)
         /\ IF it.crash THEN NormCrash(it)
            ELSE IF it.stop THEN NormStop(it)
            ELSE NormContinue(it)
  /\ UNCHANGED <<df, id_cols, fail_fast, fail_mode, error_limit, violations,
                 fvars>>

\* the end of validate returning is_valid = True whatever the issues
NormReturnAlwaysValid ==
  /\ pc = "rules"
  /\ i > Len(rules)
  /\ issues' = issues \o Advisories(headers_count, id_cols)
  /\ ret' = [kind |-> "return", is_valid |-> TRUE, rules |-> rules,
             issues |-> issues', message |-> ""]
  /\ pc' = "done"
  /\ UNCHANGED <<inputs, i, violations, evaluated, names_seen, headers_count,
                 fvars>>

\* the loop is over: the cross-rule advisories, then return is_valid, rules,
\* issues
NormReturn ==
  /\ pc = "rules"
  /\ i > Len(rules)
  /\ issues' = issues \o Advisories(headers_count, id_cols)
  /\ ret' = [kind |-> "return", is_valid |-> Len(Errors(issues')) = 0,
             rules |-> rules, issues |-> issues', message |-> ""]
  /\ pc' = "done"
  /\ UNCHANGED <<inputs, i, violations, evaluated, names_seen, headers_count,
                 fvars>>

NextNorm == NormalizeRule \/ NormReturn

\* RuleSchemaValidator.validate on the rule documents
SpecNorm == InitNorm /\ [][NextNorm]_vars

\* ------------------------- RuleSchemaValidator.validate as a function
\* the outcome of validate on the document rs, from the rule at index idx on
RECURSIVE NormRun(_, _, _, _, _, _, _, _)
NormRun(rs, idx, iss, seen, hc, cols, ff, fm) ==
  IF idx >= Len(rs)
  THEN [kind |-> "return",
        is_valid |-> Len(Errors(iss \o Advisories(hc, cols))) = 0,
        rules |-> rs, issues |-> iss \o Advisories(hc, cols), message |-> ""]
  ELSE LET it == CheckRule(rs[idx + 1], idx, iss, seen, cols, ff)
           named == [rs EXCEPT ![idx + 1] = it.rule]
       IN  IF it.crash
           THEN [kind |-> "raise", is_valid |-> FALSE, rules |-> <<>>,
                 issues |-> <<>>, message |-> it.message]
           ELSE IF it.stop
           THEN IF fm = "raise"
                THEN [kind |-> "raise", is_valid |-> FALSE, rules |-> <<>>,
                      issues |-> <<>>,
                      message |-> "Rule validation failed: " \o it.message]
                ELSE [kind |-> "return", is_valid |-> FALSE, rules |-> named,
                      issues |-> it.issues, message |-> ""]
           ELSE NormRun(named, idx + 1, it.issues,
                        IF it.counted THEN seen \cup {it.rule.name} ELSE seen,
                        IF it.counted /\ RuleType(it.rule) = "headers"
                        THEN hc + 1 ELSE hc,
                        cols, ff, fm)

\* RuleSchemaValidator(id_cols=cols, fail_fast=ff, fail_mode=fm).validate(rs)
SchemaValidate(rs, cols, ff, fm) == NormRun(rs, 0, <<>>, {}, 0, cols, ff, fm)

\* is_valid of RuleSchemaValidator(id_cols=cols).validate(rs) in collect
\* mode; false when validate raises
SchemaIsValid(rs, cols) ==
  /\ SchemaValidate(rs, cols, FALSE, "return").kind = "return"
  /\ SchemaValidate(rs, cols, FALSE, "return").is_valid

\* -------------------------------------------------- validate as a function
\* The violation lists the data pass of validate can collect in collect
\* mode with the per-rule cap n.
RECURSIVE CollectViolations(_, _, _, _)
CollectViolations(idc, rel, rs, n) ==
  IF rs = <<>> THEN {<<>>}
  ELSE LET r == Head(rs)
           heads == IF r.type = "headers" THEN {<<>>}
                    ELSE UNION {LimitEach(parts, n) : parts \in Run(idc, rel, r)}
       IN  {h \o t : h \in heads, t \in CollectViolations(idc, rel, Tail(rs), n)}

\* the outcomes validate can return in collect mode with the cap n
ValidateCollect(idc, rel, rs, n) ==
  {Finalize(idc, rel, v) : v \in CollectViolations(idc, rel, rs, n)}

\* ------------------------------------------------- inputs of flatten_utils
\* a _flatten_structs call with a small max_depth
SmallDepth == 2

\* the chains just below, at and above the bound md, without rows
StructChains(md) ==
  {Relation(<<Field("a", StructChainType(n))>>, <<>>) : n \in (md - 1)..(md + 1)}
ArrayChains ==
  {Relation(<<Field("a", ArrayChainType(n))>>, <<>>) :
     n \in (MAX_ITERATIONS - 1)..(MAX_ITERATIONS + 1)}

Elem == StructVal(<<AtomVal>>)

\* the shapes of the documents: the fields, and the rows to draw from
Shapes ==
  << \* a struct column
     [schema |-> <<Field("id", AtomType),
                   Field("user", StructType(<<Field("id", AtomType),
                                              Field("name", AtomType)>>))>>,
      rows |-> << <<AtomVal, StructVal(<<AtomVal, AtomVal>>)>>,
                  <<AtomVal, NullVal>>,
                  <<NullVal, StructVal(<<NullVal, AtomVal>>)>> >>],
     \* one array of structs
     [schema |-> <<Field("id", AtomType),
                   Field("positions",
                         ArrayType(StructType(<<Field("symbol", AtomType)>>)))>>,
      rows |-> << <<AtomVal, NullVal>>,
                  <<AtomVal, ArrayVal(<<>>)>>,
                  <<AtomVal, ArrayVal(<<Elem>>)>>,
                  <<AtomVal, ArrayVal(<<Elem, NullVal>>)>>,
                  <<NullVal, ArrayVal(<<Elem, Elem, Elem>>)>> >>],
     \* an array of structs inside an array of structs
     [schema |-> <<Field("orders",
                         ArrayType(StructType(
                           <<Field("o", AtomType),
                             Field("lines",
                                   ArrayType(StructType(<<Field("x", AtomType)>>)))>>)))>>,
      rows |-> << <<NullVal>>,
                  <<ArrayVal(<<NullVal>>)>>,
                  <<ArrayVal(<<StructVal(<<AtomVal, NullVal>>)>>)>>,
                  <<ArrayVal(<<StructVal(<<AtomVal, ArrayVal(<<Elem, Elem>>)>>),
                               StructVal(<<AtomVal, ArrayVal(<<>>)>>)>>)>> >>],
     \* two arrays of structs side by side
     [schema |-> <<Field("a", ArrayType(StructType(<<Field("x", AtomType)>>))),
                   Field("b", ArrayType(StructType(<<Field("y", AtomType)>>)))>>,
      rows |-> << <<ArrayVal(<<Elem, Elem>>), ArrayVal(<<Elem, Elem>>)>>,
                  <<ArrayVal(<<Elem, Elem>>), ArrayVal(<<>>)>>,
                  <<NullVal, ArrayVal(<<Elem>>)>> >>],
     \* a column already named like a flattened field
     [schema |-> <<Field("a.b", AtomType),
                   Field("a", StructType(<<Field("b", AtomType)>>))>>,
      rows |-> << <<AtomVal, StructVal(<<AtomVal>>)>>,
                  <<NullVal, NullVal>> >>],
     \* the same, the field being a struct itself
     [schema |-> <<Field("a.b", AtomType),
                   Field("a", StructType(
                     <<Field("b", StructType(<<Field("c", AtomType)>>))>>))>>,
      rows |-> << <<AtomVal, StructVal(<<StructVal(<<AtomVal>>)>>)>> >>],
     \* a column named like a field of an exploded array
     [schema |-> <<Field("a.x", AtomType),
                   Field("a", ArrayType(StructType(<<Field("x", AtomType)>>)))>>,
      rows |-> << <<AtomVal, ArrayVal(<<Elem, Elem>>)>> >>],
     \* arrays of leaves, at the top and inside a struct
     [schema |-> <<Field("tags", ArrayType(AtomType)),
                   Field("s", StructType(<<Field("t", ArrayType(AtomType))>>))>>,
      rows |-> << <<ArrayVal(<<AtomVal, AtomVal>>),
                    StructVal(<<ArrayVal(<<AtomVal, AtomVal>>)>>)>>,
                  <<NullVal, NullVal>> >>],
     \* a struct in an array of structs in a struct
     [schema |-> <<Field("s", StructType(
                     <<Field("items",
                             ArrayType(StructType(
                               <<Field("p", StructType(<<Field("q", AtomType)>>))>>)))>>))>>,
      rows |-> << <<NullVal>>,
                  <<StructVal(<<ArrayVal(<<StructVal(<<Elem>>), NullVal>>)>>)>> >>]
  >>

\* the relations of a shape: up to MaxRows of its rows, in any order
ShapeRelations(sh) ==
  {Relation(sh.schema, [k \in 1..Len(pick) |-> sh.rows[pick[k]]]) :
     pick \in UNION {[1..n -> 1..Len(sh.rows)] : n \in 0..MaxRows}}

FlatRelations == UNION {ShapeRelations(Shapes[s]) : s \in 1..Len(Shapes)}

\* what flatten_utils has returned or raised: nothing yet
FlatNoOutcome == [kind |-> "none", error |-> ""]

\* the validators are not running
ValidatorsIdle ==
  /\ rules = <<>>
  /\ id_cols = <<>>
  /\ fail_fast = FALSE
  /\ fail_mode = "return"
  /\ error_limit = 0
  /\ i = 1
  /\ violations = <<>>
  /\ evaluated = <<>>
  /\ issues = <<>>
  /\ names_seen = {}
  /\ headers_count = 0

\* flatten_all(df, explode_arrays) on the documents and on the chains at its
\* bounds, and _flatten_structs(df, max_depth = SmallDepth); df is the
\* argument, out the relation the function works on
InitFlatten ==
  /\ explode_arrays \in BOOLEAN
  /\ max_depth \in {SmallDepth, MAX_DEPTH_DEFAULT}
  /\ max_depth = SmallDepth => ~explode_arrays
  /\ df \in FlatRelations \cup StructChains(max_depth) \cup ArrayChains
  /\ out = df
  /\ depth = 0
  /\ iteration = 0
  /\ exploded = <<>>
  /\ rule_paths = <<>>
  /\ log = <<>>
  /\ pc = "flatten"
  /\ ret = FlatNoOutcome
  /\ ValidatorsIdle

\* ------------------------------------------------ actions of flatten_utils
\* flatten_all and _flatten_structs_optimized leave everything but the
\* relation, their counters and the outcome alone
FlattenFrame ==
  UNCHANGED <<inputs, nvars, i, violations, evaluated, max_depth,
              explode_arrays, rule_paths, log>>

FlattenRaise(message) ==
  /\ ret' = [kind |-> "raise", error |-> message]
  /\ pc' = "done"

\* one pass of _flatten_structs_optimized: the projection, which the analyzer
\* rejects when two columns share a name
FlattenPass ==
  /\ pc = "flatten"
  /\ depth < max_depth
  /\ HasStructsFields(out.schema)
  /\ IF AmbiguousNames(out.schema)
     THEN FlattenRaise("AnalysisException") /\ UNCHANGED <<out, depth>>
     ELSE /\ out' = SelectExpanded(out)
          /\ depth' = depth + 1
          /\ UNCHANGED <<pc, ret>>
  /\ UNCHANGED <<iteration, exploded>>
  /\ FlattenFrame

\* _flatten_structs_optimized returning after its first pass
FlattenReturnAfterOnePass ==
  /\ pc = "flatten"
  /\ depth < max_depth
  /\ depth >= 1 \/ ~HasStructsFields(out.schema)
  /\ IF explode_arrays
     THEN pc' = "explode" /\ UNCHANGED ret
     ELSE pc' = "done" /\ ret' = [kind |-> "return", error |-> ""]
  /\ UNCHANGED <<out, depth, iteration, exploded>>
  /\ FlattenFrame

\* no struct column is left: _flatten_structs_optimized returns, to the
\* explosion loop of flatten_all or to the caller
FlattenReturn ==
  /\ pc = "flatten"
  /\ depth < max_depth
  /\ ~HasStructsFields(out.schema)
  /\ IF explode_arrays
     THEN pc' = "explode" /\ UNCHANGED ret
     ELSE pc' = "done" /\ ret' = [kind |-> "return", error |-> ""]
  /\ UNCHANGED <<out, depth, iteration, exploded>>
  /\ FlattenFrame

\* the loop of _flatten_structs_optimized is over
FlattenLimit ==
  /\ pc = "flatten"
  /\ depth = max_depth
  /\ FlattenRaise(DepthLimitError)
  /\ UNCHANGED <<out, depth, iteration, exploded>>
  /\ FlattenFrame

\* one iteration of the explosion loop of flatten_all: the break, or the
\* explosion of the first array of structs and the call that flattens again
ExplodeStep ==
  /\ pc = "explode"
  /\ iteration < MAX_ITERATIONS
  /\ LET c == FirstArrayOfStruct(out.schema)
     IN  IF c = 0
         THEN /\ pc' = "done"
              /\ ret' = [kind |-> "return", error |-> ""]
              /\ UNCHANGED <<out, depth, iteration, exploded>>
         ELSE IF \E k \in 1..Len(out.schema) :
                   k # c /\ out.schema[k].name = out.schema[c].name
         THEN /\ FlattenRaise("AnalysisException")
              /\ UNCHANGED <<out, depth, iteration, exploded>>
         ELSE /\ out' = ExplodeColumn(out, c)
              /\ exploded' = Append(exploded, out.schema[c].name)
              /\ iteration' = iteration + 1
              /\ depth' = 0
              /\ pc' = "flatten"
              /\ UNCHANGED ret
  /\ FlattenFrame

\* the explosion loop of flatten_all is over without a break
ExplodeLimit ==
  /\ pc = "explode"
  /\ iteration = MAX_ITERATIONS
  /\ FlattenRaise(ExplosionLimitError)
  /\ UNCHANGED <<out, depth, iteration, exploded>>
  /\ FlattenFrame

NextFlatten ==
  FlattenPass \/ FlattenReturn \/ FlattenLimit \/ ExplodeStep \/ ExplodeLimit

\* flatten_all and _flatten_structs on the documents
SpecFlatten == InitFlatten /\ [][NextFlatten]_vars

\* --------------------------------------------------- flatten_by_rules runs
MaxPaths == 3

\* the target paths to draw from
TargetPaths ==
  {<<"id">>, <<"user", "id">>, <<"positions", "symbol">>, <<"positions">>,
   <<"tags">>, <<"a", "b">>, <<"missing">>}

PathLists == UNION {[1..n -> TargetPaths] : n \in 0..MaxPaths}

\* the documents: every shape with all its rows, and a relation that is
\* flat already
ByRulesRelations ==
  {Relation(Shapes[s].schema, Shapes[s].rows) : s \in 1..Len(Shapes)}
  \cup {Relation(<<Field("id", AtomType), Field("positions.symbol", AtomType)>>,
                 << <<AtomVal, AtomVal>>, <<AtomVal, NullVal>> >>)}

InitByRules ==
  /\ df \in ByRulesRelations
  /\ rule_paths \in PathLists
  /\ explode_arrays \in BOOLEAN
  /\ out = df
  /\ depth = 0
  /\ max_depth = MAX_DEPTH_DEFAULT
  /\ iteration = 0
  /\ exploded = <<>>
  /\ log = <<>>
  /\ pc = "by_rules"
  /\ ret = FlatNoOutcome
  /\ ValidatorsIdle

\* the call of flatten_by_rules
FlattenByRules ==
  /\ pc = "by_rules"
  /\ LET res == FlattenByRulesOf(df, rule_paths, explode_arrays)
     IN  /\ out' = res.out
         /\ log' = log \o res.log
         /\ ret' = [kind |-> res.kind, error |-> res.error]
  /\ pc' = "done"
  /\ UNCHANGED <<inputs, nvars, i, violations, evaluated, depth, max_depth,
                 iteration, exploded, explode_arrays, rule_paths>>

NextByRules == FlattenByRules

\* flatten_by_rules on the documents and the target paths
SpecByRules == InitByRules /\ [][NextByRules]_vars

\* ------------------------------------------------ flatten_all as a function
\* _flatten_structs_optimized from its pass d on
RECURSIVE FlattenStructs(_, _, _)
FlattenStructs(r, d, md) ==
  IF d >= md
  THEN [kind |-> "raise", error |-> DepthLimitError,
        out |-> r]
  ELSE IF ~HasStructsFields(r.schema)
  THEN [kind |-> "return", error |-> "", out |-> r]
  ELSE IF AmbiguousNames(r.schema)
  THEN [kind |-> "raise", error |-> "AnalysisException", out |-> r]
  ELSE FlattenStructs(SelectExpanded(r), d + 1, md)

\* the explosion loop of flatten_all from its iteration it on
RECURSIVE ExplodeLoop(_, _, _, _)
ExplodeLoop(r, it, names, md) ==
  IF it >= MAX_ITERATIONS
  THEN [kind |-> "raise",
        error |-> ExplosionLimitError,
        out |-> r, exploded |-> names]
  ELSE LET c == FirstArrayOfStruct(r.schema)
       IN  IF c = 0
           THEN [kind |-> "return", error |-> "", out |-> r,
                 exploded |-> names]
           ELSE IF \E k \in 1..Len(r.schema) :
                     k # c /\ r.schema[k].name = r.schema[c].name
           THEN [kind |-> "raise", error |-> "AnalysisException", out |-> r,
                 exploded |-> names]
           ELSE LET fl == FlattenStructs(ExplodeColumn(r, c), 0, md)
                IN  IF fl.kind = "raise"
                    THEN [kind |-> "raise", error |-> fl.error,
                          out |-> fl.out,
                          exploded |-> Append(names, r.schema[c].name)]
                    ELSE ExplodeLoop(fl.out, it + 1,
                                     Append(names, r.schema[c].name), md)

\* flatten_all(r, explode_arrays = ea), its flattening bounded by md
FlattenAll(r, ea, md) ==
  LET fl == FlattenStructs(r, 0, md)
  IN  IF fl.kind = "raise" \/ ~ea
      THEN [kind |-> fl.kind, error |-> fl.error, out |-> fl.out,
            exploded |-> <<>>]
      ELSE ExplodeLoop(fl.out, 0, <<>>, md)

\* ------------------------------------------------------- claim vocabulary
Done == pc = "done"
Returned == Done /\ ret.kind = "return"
CollectMode == ~fail_fast

IsHeaders(k) == rules[k].type = "headers"

\* whether rule k yields a partial with rows on the input relation
RuleHasRows(k) == \E parts \in Run(id_cols, df, rules[k]) : AnyHasRows(parts)

SomeHeaderMissing ==
  \E k \in 1..Len(rules) : IsHeaders(k) /\ Missing(rules[k].columns) # <<>>

Rows(rel) == {rel[k] : k \in 1..Len(rel)}

\* the distinct id_cols tuples of a diagnostics relation
DiagIds(errs) == {errs[k].ids : k \in 1..Len(errs)}

HasNull(t) == \E k \in 1..Len(t) : t[k] = NULL

\* id_cols is a key of the input relation: no two rows share their tuple
IdColsIsKey ==
  \A a, b \in 1..Len(df) :
    a # b => Tuple(df[a], id_cols) # Tuple(df[b], id_cols)

\* the rules that validate evaluates before rule k: the headers rules come
\* first, then the data rules, each group in document order
EvaluatedBefore(k) ==
  {j \in 1..Len(rules) :
     IF IsHeaders(k) THEN IsHeaders(j) /\ j < k
     ELSE IsHeaders(j) \/ j < k}

\* ------------------------------------------------------------------ claims
\* C1: in collect mode the returned diagnostics hold one row (null ids,
\* column = the missing name) for every column a headers rule requires and
\* the schema lacks, and is_valid is false when a headers rule has a missing
\* column.
C1_HeadersDiagnosticsCollected ==
  (Done /\ CollectMode) =>
    /\ \A k \in 1..Len(rules) :
         IsHeaders(k) =>
           \A m \in 1..Len(Missing(rules[k].columns)) :
             \E e \in Rows(ret.errors_df) :
               /\ e.column = Missing(rules[k].columns)[m]
               /\ e.ids = NullIds(id_cols)
    /\ (SomeHeaderMissing => ~ret.is_valid)

\* C2: whenever validate returns, is_valid equals (the returned diagnostics
\* relation has no row).
C2_IsValidIffNoDiagnostics ==
  Returned => (ret.is_valid = (Len(ret.errors_df) = 0))

\* C3: in collect mode with non-empty id_cols, a row of the input is absent
\* from the valid relation iff its id_cols tuple equals the id_cols tuple of
\* some row of the returned diagnostics.
C3_ExcludedIffIdInDiagnostics ==
  LET InDiag(row) == Tuple(row, id_cols) \in DiagIds(ret.errors_df)
      NotInDiag(row) == ~InDiag(row)
  IN  (Done /\ CollectMode /\ id_cols # <<>>) =>
        ret.valid_df = Where(df, [k \in 1..Len(df) |-> NotInDiag(df[k])])

C5_HeadersPrecedence ==
  (fail_fast /\ SomeHeaderMissing) =>
    /\ pc # "data"
    /\ \A a \in 1..Len(evaluated) : IsHeaders(evaluated[a])
    /\ Done =>
         /\ ret.kind \in {"return", "raise"}
         /\ \A e \in Rows(ret.errors_df) :
              /\ e.ids = NullIds(id_cols)
              /\ \E k \in 1..Len(rules) :
                   /\ IsHeaders(k)
                   /\ e.rule = Get(rules[k].name, "headers")
                   /\ \E m \in 1..Len(Missing(rules[k].columns)) :
                        e.column = Missing(rules[k].columns)[m]

\* a fail-fast run that ended on the headers rule standing after a data rule
\* that has violations
C5_Witness ==
  /\ Done /\ fail_fast
  /\ Len(rules) = 2
  /\ ~IsHeaders(1) /\ RuleHasRows(1)
  /\ IsHeaders(2) /\ Missing(rules[2].columns) # <<>>
  /\ ret.errors_df # <<>>

\* C6: with fail_fast, the data rules are evaluated in document order, and
\* a rule that yielded a partial with rows is the last rule evaluated, in
\* the return and in the raise mode; a run that ends without a violation has
\* evaluated every rule.
C6_FailFastStopsAtFirstViolation ==
  fail_fast =>
    /\ \A a, b \in 1..Len(evaluated) :
         a < b =>
           /\ ~RuleHasRows(evaluated[a])
           /\ evaluated[a] \in EvaluatedBefore(evaluated[b])
    /\ Done =>
         LET last == evaluated[Len(evaluated)]
         IN  IF evaluated # <<>> /\ RuleHasRows(last)
             THEN ret.kind = (IF fail_mode = "raise" THEN "raise" ELSE "return")
             ELSE /\ ret.kind = "return"
                  /\ \A k \in 1..Len(rules) :
                       \E a \in 1..Len(evaluated) : evaluated[a] = k

\* a raise on the first of two data rules, the second never evaluated
C6_Witness ==
  /\ Done /\ fail_fast /\ fail_mode = "raise"
  /\ Len(rules) = 2 /\ ~IsHeaders(1) /\ ~IsHeaders(2)
  /\ RuleHasRows(2)
  /\ evaluated = <<1>>
  /\ ret.kind = "raise"

C8_CapDoesNotChangeResult ==
  (Done /\ CollectMode) =>
    \A n \in ErrorLimits :
      \A o \in ValidateCollect(id_cols, df, rules, n) :
        /\ o.is_valid = ret.is_valid
        /\ o.valid_df = ret.valid_df

\* C9: the diagnostics of a unique rule over columns K hold exactly one row
\* for each input row whose K-tuple occurs in more than one input row, and
\* none for a tuple that occurs once.
C9_UniqueFlagsEveryDuplicate ==
  (evaluated # <<>> /\ rules[1].type = "unique") =>
    LET K == rules[1].columns
        Occurrences(t) ==
          Cardinality({k \in 1..Len(df) : Tuple(df[k], K) = t})
        duplicated == {k \in 1..Len(df) : Occurrences(Tuple(df[k], K)) > 1}
    IN  \A parts \in Run(id_cols, df, rules[1]) :
          /\ Len(parts) = 1
          /\ Len(parts[1]) = Cardinality(duplicated)

\* C10: under a decimal rule with exact_scale a row passes iff its value
\* casts to Decimal(precision, scale), its text has at most scale digits
\* after the point (none when it has no fractional part) and min/max hold
\* when given.
C10_ExactScalePasses ==
  (evaluated # <<>> /\ rules[1].type = "decimal" /\ rules[1].exact_scale) =>
    LET r == rules[1]
        text == df[1][r.column]
        p == GetNum(r.precision, PRECISION_DEFAULT)
        s == GetNum(r.scale, SCALE_DEFAULT)
        dec == CastDecimal(text, p, s)
        passes ==
          /\ ~dec.null
          /\ Len(ParseNumber(text).frac) <= s
          /\ (r.min.null \/ dec.v >= r.min.v * Pow10(s))
          /\ (r.max.null \/ dec.v <= r.max.v * Pow10(s))
    IN  (ValidateDecimal(id_cols, df, r)[1] = <<>>) = passes

\* the per-row rule types
PerRowTypes == {"non_empty", "range", "enum", "length", "regex", "decimal"}

\* the columns a per-row rule targets
TargetColumns(rule) ==
  IF rule.type = "non_empty" THEN rule.columns ELSE <<rule.column>>

\* the allowed list an enum rule names, under either key
AllowedOf(rule) ==
  IF rule.allowed # <<>> THEN rule.allowed ELSE rule.allowedValues

\* an enum rule that lists null among its allowed values
ListsNull(rule) ==
  rule.type = "enum" /\ \E k \in 1..Len(AllowedOf(rule)) : AllowedOf(rule)[k] = NULL

\* the cap is not reached by any partial
CapNotReached == error_limit >= Len(df)

\* C11: in collect mode, below the cap, every row whose target column is
\* null yields a diagnostic row of every per-row rule on that column (enum
\* rules listing null excepted).
C11_NullFailsPerRowRules ==
  (Returned /\ CollectMode /\ CapNotReached) =>
    \A k \in 1..Len(rules) :
      (rules[k].type \in PerRowTypes /\ ~ListsNull(rules[k])) =>
        \A c \in 1..Len(TargetColumns(rules[k])) :
          \A r \in 1..Len(df) :
            df[r][TargetColumns(rules[k])[c]] = NULL =>
              \E e \in Rows(ret.errors_df) :
                /\ e.column = TargetColumns(rules[k])[c]
                /\ e.value = NULL
                /\ e.ids = Tuple(df[r], id_cols)
                /\ e.rule = Get(rules[k].name, "")

\* the (row, column position) pairs of rel that are blank in the columns cs
BlankCells(rel, cs) ==
  {rc \in (1..Len(rel)) \X (1..Len(cs)) : IsBlank(rel[rc[1]][cs[rc[2]]])}

\* C12: in collect mode, below the cap, a non_empty rule yields one
\* diagnostic row per (row, column) pair that is null or blank after trimming
\* and no other row: a row blank in j of the k columns yields exactly j rows,
\* a row blank in none yields none.
C12_NonEmptyPerColumn ==
  (Returned /\ CollectMode /\ CapNotReached /\ Len(rules) = 1
     /\ rules[1].type = "non_empty") =>
    LET cs == rules[1].columns
    IN  /\ Len(ret.errors_df) = Cardinality(BlankCells(df, cs))
        /\ \A rc \in BlankCells(df, cs) :
             \E e \in Rows(ret.errors_df) :
               /\ e.column = cs[rc[2]]
               /\ e.value = df[rc[1]][cs[rc[2]]]
               /\ e.ids = Tuple(df[rc[1]], id_cols)
        /\ \A e \in Rows(ret.errors_df) :
             \E rc \in BlankCells(df, cs) :
               /\ e.column = cs[rc[2]]
               /\ e.ids = Tuple(df[rc[1]], id_cols)

\* a non_empty rule over two columns on a relation with a row blank in both
\* (two diagnostic rows) and a row blank in none
C12_Witness ==
  /\ Returned /\ CollectMode /\ CapNotReached
  /\ Len(rules) = 1 /\ rules[1].type = "non_empty"
  /\ Len(rules[1].columns) = 2
  /\ \E a, b \in 1..Len(df) :
       /\ \A c \in 1..2 : IsBlank(df[a][rules[1].columns[c]])
       /\ \A c \in 1..2 : ~IsBlank(df[b][rules[1].columns[c]])
  /\ Len(ret.errors_df) = 2

IsUnknown(k) == rules[k].type \notin HandlerTypes

\* C14: a rule whose type has no handler yields one partial of exactly one
\* row with null ids, null column, null value and a message naming the type;
\* in collect mode validate still returns, every rule is evaluated once, and
\* (with a cap of at least one row) the diagnostics hold one such row per
\* such rule.
C14_UnknownTypeMetaRow ==
  /\ \A k \in 1..Len(rules) :
       IsUnknown(k) =>
         \A parts \in Run(id_cols, df, rules[k]) :
           /\ Len(parts) = 1 /\ Len(parts[1]) = 1
           /\ parts[1][1].ids = NullIds(id_cols)
           /\ parts[1][1].column = NullStr
           /\ parts[1][1].value = NULL
           /\ parts[1][1].message = "Unknown rule type: " \o rules[k].type
  /\ (Done /\ CollectMode) =>
       /\ ret.kind = "return"
       /\ Len(evaluated) = Len(rules)
       /\ \A k \in 1..Len(rules) : \E a \in 1..Len(evaluated) : evaluated[a] = k
       /\ error_limit >= 1 =>
            Cardinality({j \in 1..Len(ret.errors_df) :
                           /\ ret.errors_df[j].column = NullStr
                           /\ ret.errors_df[j].value = NULL
                           /\ ret.errors_df[j].ids = NullIds(id_cols)})
              = Cardinality({k \in 1..Len(rules) : IsUnknown(k)})

\* a collect-mode return of a rule of unknown type followed by a data rule
\* with violations: both were evaluated and both have rows in the diagnostics
C14_Witness ==
  /\ Returned /\ CollectMode /\ error_limit >= 1
  /\ Len(rules) = 2 /\ IsUnknown(1) /\ ~IsUnknown(2) /\ ~IsHeaders(2)
  /\ RuleHasRows(2)
  /\ evaluated = <<1, 2>>
  /\ \E e \in Rows(ret.errors_df) : e.column = NullStr
  /\ \E e \in Rows(ret.errors_df) : e.column # NullStr

\* C15: every row of the diagnostics relation validate returns carries in
\* its rule field the name of a rule of the rule set passed to validate.
C15_RuleFieldNamesARule ==
  Returned =>
    \A e \in Rows(ret.errors_df) :
      \E k \in 1..Len(rules) :
        rules[k].name # Absent /\ rules[k].name = e.rule

\* C16: validate evaluates no rule of a rule set that RuleSchemaValidator
\* reports as invalid.
C16_InvalidRuleSetNotEvaluated ==
  (Done /\ ~SchemaIsValid(rules, NoHint)) => evaluated = <<>>

\* C17: the rule list RuleSchemaValidator.validate returns holds no rule
\* whose type is outside SUPPORTED_TYPES.
C17_ReturnedRulesSupported ==
  Returned =>
    \A k \in 1..Len(ret.rules) : IsSupported(ret.rules[k].type)

\* C18: whenever RuleSchemaValidator.validate returns, is_valid is true
\* exactly when the returned issues hold no ERROR.
C18_IsValidIffNoError ==
  Returned => (ret.is_valid <=> Errors(ret.issues) = <<>>)

\* a return with warnings only: is_valid is true
C18_Witness ==
  /\ Returned /\ Len(rules) = MaxRules
  /\ ret.issues # <<>> /\ Errors(ret.issues) = <<>>
  /\ ret.is_valid

\* the paths of the issues of the rule at position k of the document
PathsOf(k) ==
  {"[" \o IdxStr(k - 1) \o "]" \o suffix :
     suffix \in {"", ".columns", ".column", ".min", ".max", ".pattern",
                 ".min/max", ".allowed", ".precision/scale"}}

\* the 'Duplicate rule name' errors reported for the rule at position k
DuplicateErrors(iss, k) ==
  {j \in 1..Len(iss) :
     /\ iss[j].level = "ERROR"
     /\ iss[j].message = "Duplicate rule name"
     /\ iss[j].path \in PathsOf(k)}

\* C19: in collect mode the rule at position k has exactly one 'Duplicate
\* rule name' ERROR when its name (auto-named when absent) is the name of an
\* earlier rule of the document, and none otherwise.
C19_DuplicateNamesExact ==
  (Returned /\ CollectMode) =>
    \A k \in 1..Len(rules) :
      Cardinality(DuplicateErrors(ret.issues, k)) =
        IF \E j \in 1..(k - 1) : ret.rules[j].name = ret.rules[k].name
        THEN 1 ELSE 0

\* C20: with fail_fast the rules are checked in order up to the first one
\* that produces an ERROR and no further: every ERROR is of the last rule
\* checked, no issue is of a later rule, no cross-rule advisory is present,
\* and the outcome is the return of is_valid = false with the issues so far,
\* or the raise, which returns nothing; when validate returns without any
\* ERROR every rule was checked and is_valid is true.
C20_FailFastStopsAtFirstError ==
  (Done /\ fail_fast) =>
    LET last == Len(evaluated)
    IN  /\ evaluated = [k \in 1..last |-> k]
        /\ \A k \in 1..Len(issues) :
             issues[k].level = "ERROR" => issues[k].path \in PathsOf(last)
        /\ IF Errors(issues) # <<>>
           THEN /\ \A k \in 1..Len(issues) :
                     \E r \in 1..last : issues[k].path \in PathsOf(r)
                /\ IF fail_mode = "raise"
                   THEN ret.kind = "raise" /\ ret.rules = <<>>
                        /\ ret.issues = <<>>
                   ELSE ret.kind = "return" /\ ~ret.is_valid
                        /\ ret.issues = issues /\ ret.rules = rules
           ELSE ret.kind = "return" => (last = Len(rules) /\ ret.is_valid)

\* a rule holding a field value int() rejects: a length rule with such a min
\* or max, a decimal rule with such a precision or scale
IsMalformed(rule) ==
  \/ RuleType(rule) = "length" /\ (~IsNumber(rule.min) \/ ~IsNumber(rule.max))
  \/ RuleType(rule) = "decimal"
       /\ (~IsNumber(rule.precision) \/ ~IsNumber(rule.scale))

\* C21: in collect mode RuleSchemaValidator.validate returns, after checking
\* every rule, an issue list that holds an ERROR for every rule with a
\* malformed field value.
C21_CollectReportsMalformed ==
  (Done /\ CollectMode) =>
    /\ ret.kind = "return"
    /\ evaluated = [k \in 1..Len(rules) |-> k]
    /\ \A k \in 1..Len(rules) :
         IsMalformed(rules[k]) =>
           \E j \in 1..Len(ret.issues) :
             ret.issues[j].level = "ERROR" /\ ret.issues[j].path \in PathsOf(k)

\* validate has not started on the document
NotStarted == pc = "rules" /\ i = 1 /\ evaluated = <<>>

\* C22: for every rule document, validate with the dataset-column hint
\* returns wherever validate without a hint returns and never leaves by an
\* exception of a per-rule validator, and then with the same is_valid, the
\* same ERROR issues and the same rules; where validate raises by fail_fast
\* it does so with and without the hint.
C22_HintOnlyAddsWarnings ==
  NotStarted =>
    LET hinted == SchemaValidate(rules, id_cols, fail_fast, fail_mode)
        plain == SchemaValidate(rules, NoHint, fail_fast, fail_mode)
    IN  /\ hinted.message # "invalid literal for int()"
        /\ hinted.kind = plain.kind
        /\ hinted.is_valid = plain.is_valid
        /\ Errors(hinted.issues) = Errors(plain.issues)
        /\ hinted.rules = plain.rules
        /\ hinted.message = plain.message

\* the input rows a data rule produced a diagnostic row for: the rows whose
\* id_cols cells are those of a diagnostic row of a column
Flagged(errs) ==
  {r \in 1..Len(df) :
     \E e \in Rows(errs) : e.column # NullStr /\ e.ids = Tuple(df[r], id_cols)}

\* C29: in collect mode with non-empty id_cols, below the cap, no input row
\* that a data rule produced a diagnostic row for is in the returned valid
\* relation, whether or not its id cells are null.
C29_FlaggedRowsNotValid ==
  (Returned /\ CollectMode /\ id_cols # <<>> /\ CapNotReached) =>
    \A r \in Flagged(ret.errors_df) : df[r] \notin Rows(ret.valid_df)

Raised == Done /\ ret.kind = "raise"

\* C23: _flatten_structs_optimized makes at most max_depth projection
\* passes; whenever it returns (to its caller, or to the explosion loop of
\* flatten_all) the relation has no struct column; and a call that does not
\* return fails with the limit error.
C23_FlattenTerminates ==
  /\ depth <= max_depth
  /\ (pc = "explode" \/ Returned) => ~HasStructsFields(out.schema)
  /\ (Raised /\ ~explode_arrays) => ret.error = DepthLimitError

\* C30: when the top-level column names of the input are pairwise distinct,
\* so are the column names of the relation flattening returns.
C30_NamesStayDistinct ==
  (Returned /\ ~AmbiguousNames(df.schema)) => ~AmbiguousNames(out.schema)

\* C24: applying flatten_all (with the same explode_arrays) to the relation
\* it returned returns that relation again - the same columns in the same
\* order and the same rows - and reports no exploded column.
C24_FlattenIdempotent ==
  Returned =>
    FlattenAll(out, explode_arrays, max_depth) =
      [kind |-> "return", error |-> "", out |-> out, exploded |-> <<>>]

\* a first application that flattened a struct and exploded arrays into more
\* rows
C24_Witness ==
  /\ Returned
  /\ explode_arrays
  /\ Len(exploded) = 2
  /\ Len(out.data) > Len(df.data)
  /\ HasStructsFields(ExplodeColumn(df, FirstArrayOfStruct(df.schema)).schema)
  /\ C24_FlattenIdempotent

RECURSIVE SumOver(_)
SumOver(ns) == IF ns = <<>> THEN 0 ELSE Head(ns) + SumOver(Tail(ns))

RECURSIVE ProductOver(_)
ProductOver(ns) == IF ns = <<>> THEN 1 ELSE Head(ns) * ProductOver(Tail(ns))

\* the rows outer explosion makes of one value of the type t: one for a
\* leaf, an array of leaves, a NULL and an empty array; for a struct the
\* product over its fields; for an array of structs the sum over its elements
RECURSIVE OuterCount(_, _)
OuterCount(t, v) ==
  IF v.k = "null" THEN 1
  ELSE IF IsStruct(t)
  THEN ProductOver([j \in 1..Len(FieldsOf(t)) |->
                      OuterCount(FieldsOf(t)[j].type, v.items[j])])
  ELSE IF IsArrayOfStruct(t)
  THEN IF v.items = <<>> THEN 1
       ELSE SumOver([e \in 1..Len(v.items) |-> OuterCount(ElemOf(t), v.items[e])])
  ELSE 1

\* the rows outer explosion makes of the rows of r
OuterRows(r) ==
  SumOver([k \in 1..Len(r.data) |->
             ProductOver([c \in 1..Len(r.schema) |->
                            OuterCount(r.schema[c].type, r.data[k][c])])])

\* max(1, array length) of the array in column c of a row
OneArrayCount(row, c) ==
  IF row[c].k = "null" \/ row[c].items = <<>> THEN 1 ELSE Len(row[c].items)

\* the array-of-struct columns of the input, none of them holding an array of
\* structs inside
FlatArrays(r) ==
  {c \in 1..Len(r.schema) :
     /\ IsArrayOfStruct(r.schema[c].type)
     /\ \A j \in 1..Len(FieldsOf(ElemOf(r.schema[c].type))) :
          FieldsOf(ElemOf(r.schema[c].type))[j].type.k = "atom"}

\* every column of r is a leaf or one of FlatArrays(r)
OnlyFlatArrays(r) ==
  \A c \in 1..Len(r.schema) :
    r.schema[c].type.k = "atom" \/ c \in FlatArrays(r)

\* the product of max(1, array length) over the array-of-struct columns of a
\* row
RECURSIVE ArraysProduct(_, _)
ArraysProduct(row, cs) ==
  IF cs = {} THEN 1
  ELSE LET c == CHOOSE x \in cs : TRUE
       IN  OneArrayCount(row, c) * ArraysProduct(row, cs \ {c})

\* C25: when flatten_all(explode_arrays = True) returns, no input row is
\* dropped and the rows are those of outer explosion: with array-of-struct
\* columns of leaves, the sum over the input rows of the product over these
\* columns of max(1, array length) - for one column the sum of
\* max(1, array length); a NULL or empty array gives one row; and in general
\* the sum over the rows of the per-row counts composed over nested arrays.
C25_OuterExplosionRowCount ==
  (Returned /\ explode_arrays) =>
    /\ Len(out.data) >= Len(df.data)
    /\ Len(out.data) = OuterRows(df)
    /\ OnlyFlatArrays(df) =>
         Len(out.data) =
           SumOver([k \in 1..Len(df.data) |->
                      ArraysProduct(df.data[k], FlatArrays(df))])
    /\ (/\ OnlyFlatArrays(df)
        /\ \A k \in 1..Len(df.data) : \A c \in FlatArrays(df) :
             df.data[k][c].k = "null" \/ df.data[k][c].items = <<>>) =>
         \A k \in 1..Len(out.data) : \A c \in 1..Len(out.schema) :
           (\A d \in 1..Len(df.schema) : df.schema[d].name # out.schema[c].name)
             => out.data[k][c] = NullVal

\* two array columns exploded in sequence, one input row with a NULL array
\* and one with two arrays of two elements: 1 + 2 * 2 rows
C25_Witness ==
  /\ Returned
  /\ explode_arrays
  /\ Len(exploded) = 2
  /\ OnlyFlatArrays(df)
  /\ Len(df.data) = 2
  /\ \E k \in 1..2 : df.data[k][1].k = "null"
  /\ Len(out.data) = 5

HasArrayOfStruct(fs) == \E k \in 1..Len(fs) : IsArrayOfStruct(fs[k].type)

\* the step explodes the column at position c: an array of structs before,
\* its element after
ExplodesAt(c) ==
  /\ c \in 1..Len(out.schema)
  /\ IsArrayOfStruct(out.schema[c].type)
  /\ Len(out'.schema) = Len(out.schema)
  /\ out'.schema[c] = Field(out.schema[c].name, ElemOf(out.schema[c].type))

\* C26: a relation flatten_all returns has no struct column and, with
\* explode_arrays, no array-of-struct column; every step that explodes a
\* column or extends the list explodes the first array-of-struct column in
\* schema order and appends its name to the list; without explode_arrays the
\* returned list is empty and the relation has the rows of the input.
C26_ExplodedInProcessingOrder ==
  /\ [](Returned =>
          /\ ~HasStructsFields(out.schema)
          /\ explode_arrays => ~HasArrayOfStruct(out.schema)
          /\ ~explode_arrays =>
               exploded = <<>> /\ Len(out.data) = Len(df.data))
  /\ [][(exploded' # exploded \/ \E c \in 1..Len(out.schema) : ExplodesAt(c)) =>
          \E c \in 1..Len(out.schema) :
            /\ ExplodesAt(c)
            /\ \A j \in 1..(c - 1) : ~IsArrayOfStruct(out.schema[j].type)
            /\ exploded' = Append(exploded, out.schema[c].name)]_vars

\* two array columns, exploded in schema order
C26_Witness ==
  /\ Returned
  /\ explode_arrays
  /\ exploded = <<"a", "b">>
  /\ df.schema[1].name = "a" /\ df.schema[2].name = "b"
  /\ ~HasArrayOfStruct(out.schema)

RECURSIVE MaxOver(_)
MaxOver(ns) ==
  IF ns = <<>> THEN 0
  ELSE IF Head(ns) > MaxOver(Tail(ns)) THEN Head(ns) ELSE MaxOver(Tail(ns))

\* the projection passes a column of type t needs: its nested struct layers
RECURSIVE PassesNeeded(_)
PassesNeeded(t) ==
  IF ~IsStruct(t) THEN 0
  ELSE IF t.chain > 0 /\ ~t.alt THEN t.chain
  ELSE 1 + MaxOver([j \in 1..Len(FieldsOf(t)) |->
                      PassesNeeded(FieldsOf(t)[j].type)])

\* the explosions a column of type t needs: its array-of-struct layers
RECURSIVE ExplosionsNeeded(_)
ExplosionsNeeded(t) ==
  IF t.chain > 0 THEN t.chain
  ELSE IF IsStruct(t)
  THEN SumOver([j \in 1..Len(FieldsOf(t)) |->
                  ExplosionsNeeded(FieldsOf(t)[j].type)])
  ELSE IF IsArrayOfStruct(t) THEN 1 + ExplosionsNeeded(ElemOf(t))
  ELSE 0

\* C28: a limit error is raised only when the bound is exceeded: flattening
\* an input whose struct nesting needs at most max_depth passes does not
\* fail with the depth limit error, flatten_all on an input needing at most
\* MAX_ITERATIONS explosions does not fail with the explosion limit error,
\* and when a limit error is raised the relation is not at its fixed point.
C28_LimitOnlyWhenExceeded ==
  Done =>
    /\ (/\ ~explode_arrays
        /\ MaxOver([c \in 1..Len(df.schema) |->
                      PassesNeeded(df.schema[c].type)]) <= max_depth)
         => ret.error # DepthLimitError
    /\ SumOver([c \in 1..Len(df.schema) |->
                  ExplosionsNeeded(df.schema[c].type)]) <= MAX_ITERATIONS
         => ret.error # ExplosionLimitError
    /\ ret.error = DepthLimitError => HasStructsFields(out.schema)
    /\ ret.error = ExplosionLimitError => HasArrayOfStruct(out.schema)


\* the names of the columns of a relation, in order
ColumnNames(r) == [c \in 1..Len(r.schema) |-> r.schema[c].name]

\* the target paths as strings, each once, in first-occurrence order
TargetNames ==
  LET ps == Distinct(rule_paths) IN [k \in 1..Len(ps) |-> JoinSep(ps[k])]

\* C27: flatten_by_rules returns, and the columns of the relation it returns
\* are the distinct target paths in first-occurrence order; the column of a
\* target path that does not resolve in the schema of the input holds NULL in
\* every row and a warning names the path.
C27_ByRulesSelectsTargets ==
  Done =>
    /\ ret.kind = "return"
    /\ ColumnNames(out) = TargetNames
    /\ \A k \in 1..Len(Distinct(rule_paths)) :
         ~PathExists(df.schema, Distinct(rule_paths)[k]) =>
           /\ \A n \in 1..Len(out.data) : out.data[n][k] = NullVal
           /\ \E w \in 1..Len(log) :
                \E j \in 1..Len(log[w].paths) :
                  log[w].paths[j] = Distinct(rule_paths)[k]

=============================================================================
